---- MODULE Spec2Model ----
(***************************************************************************)
(* A model of the structural code graph subsystem of codex-veritas:        *)
(*   - CodeGraph (src/src/codex/graph/core.py), a wrapper of a networkx    *)
(*     DiGraph with node/edge mutation, callers/callees queries and a      *)
(*     node-link JSON encoding;                                            *)
(*   - build_code_graph (src/src/codex_veritas/analysis/ast_parser.py),    *)
(*     the two-pass ingestion (symbol collection, call resolution);        *)
(*   - parse (src/src/codex/ingestion/main.py) with                        *)
(*     parse_file_to_graph_components (src/src/codex/ingestion/parser.py), *)
(*     the single-sweep ingestion that merges per-file batches.            *)
(*                                                                         *)
(* Conventions.  A Python dict with string keys is a TLA+ function whose   *)
(* domain is a set of strings (a record); {**d, **e} is  e @@ d.  A Python *)
(* list is a sequence.  An entity id "p::C::m" is the tuple of its parts   *)
(* <<"p", "C", "m">> (the parts are path names and identifiers, none of    *)
(* which contains "::", so joining with "::" is injective on them).        *)
(***************************************************************************)
EXTENDS Naturals, Integers, Sequences, FiniteSets, TLC

VARIABLES
    graph,      \* CodeGraph.graph of the instance under test (self.graph)
    ret,        \* the last call on that instance: its arguments and its outcome
    new_graph,  \* a second CodeGraph instance, the target of a reload
    disk,       \* the JSON document written by serialize_to_json, or NoDoc
    repo,          \* an ingestion run: the files of the repository, in walk order
    not_inside,    \* whether the query engine evaluates the #not-inside? predicate
    entry,         \* the entry point of the run: "build_code_graph" or "parse"
    pc,            \* where the run stands
    idx,           \* the position of the running loop in repo
    symbol_table,  \* build_code_graph: symbol_table
    all_nodes,     \* build_code_graph: all_nodes
    all_edges,     \* build_code_graph: all_edges
    output,        \* build_code_graph: the document dumped to output_file
    collected,     \* history: the files pass 1 has gone through
    resolved,      \* history: the files pass 2 has gone through
    raised1,       \* history: the files whose processing raised in pass 1
    raised2,       \* history: the files whose processing raised in pass 2
    batch,         \* a caller of merge_components: the batch it holds
    merges,        \* history: how many times that batch was merged
    centrality_scores, \* rank_nodes_by_centrality: the outcome of nx.pagerank
    JOB_STATUSES,      \* webapp/worker.py: the in-memory dict of job statuses
    background_tasks,  \* the web app: where the background task of each job stands
    response           \* the web app: the last response sent to the client

gvars == <<graph, ret, new_graph, disk>>
rvars == <<repo, not_inside, entry, pc, idx, symbol_table, all_nodes, all_edges, output,
           collected, resolved, raised1, raised2>>
jvars == <<JOB_STATUSES, background_tasks, response>>
mvars == <<batch, merges, centrality_scores, JOB_STATUSES, background_tasks, response>>
vars == <<graph, ret, new_graph, disk, repo, not_inside, entry, pc, idx, symbol_table,
          all_nodes, all_edges, output, collected, resolved, raised1, raised2, batch, merges,
          centrality_scores, JOB_STATUSES, background_tasks, response>>

----------------------------------------------------------------------------
(* Bounds of the model.                                                    *)

MaxEdges == 1   \* add_edge / merge_components are not offered beyond this many edges
MaxFiles == 2   \* the number of files of a repository
MaxMerges == 2  \* the number of times a caller merges one batch
MaxTreeLen == 3 \* the number of definitions and calls of a generated source file
MaxRankEdges == 2  \* the number of edges of a graph handed to the ranker
MaxTopN == 2    \* the largest top_n handed to the ranker
MaxJobs == 2    \* the number of analysis jobs the web app is asked for

----------------------------------------------------------------------------
(* Python dict and list helpers.                                           *)

EmptyDict == <<>>

HasKey(d, k) == k \in DOMAIN d

\* d without key k (the dict left behind by d.pop(k))
DictPop(d, k) == [x \in (DOMAIN d) \ {k} |-> d[x]]

\* {**d, **e}: the keys of e override those of d
DictUpdate(d, e) == e @@ d

RECURSIVE SeqFilterIdx(_, _, _)
\* the indices i of s, in order, for which keep[i] holds (helper for list comprehensions)
SeqFilterIdx(s, keep, i) ==
    IF i > Len(s) THEN <<>>
    ELSE (IF keep[i] THEN <<i>> ELSE <<>>) \o SeqFilterIdx(s, keep, i + 1)

Range(s) == {s[i] : i \in 1..Len(s)}

----------------------------------------------------------------------------
(* networkx.DiGraph, as far as CodeGraph uses it.  A graph value is        *)
(*   [nodes |-> sequence of [id, data], in insertion order,                *)
(*    edges |-> sequence of [source, target, data], in insertion order]    *)
(* with at most one entry per node id and per (source, target) pair: a     *)
(* DiGraph keeps one attribute dict per node and per ordered pair.         *)

EmptyGraph == [nodes |-> <<>>, edges |-> <<>>]

NodeIds(G) == {G.nodes[i].id : i \in 1..Len(G.nodes)}

EdgePairs(G) == {<<G.edges[i].source, G.edges[i].target>> : i \in 1..Len(G.edges)}

has_node(G, n) == n \in NodeIds(G)

has_edge(G, u, v) == <<u, v>> \in EdgePairs(G)

NodeIndex(G, n) == CHOOSE i \in 1..Len(G.nodes) : G.nodes[i].id = n

EdgeIndex(G, u, v) ==
    CHOOSE i \in 1..Len(G.edges) : G.edges[i].source = u /\ G.edges[i].target = v

\* G.nodes[n]: the attribute dict of node n
node_data(G, n) == G.nodes[NodeIndex(G, n)].data

\* G.edges[u, v]: the attribute dict of edge u -> v
edge_data(G, u, v) == G.edges[EdgeIndex(G, u, v)].data

\* DiGraph.add_node(n, **attrs): a new node is appended; an existing node keeps
\* its place and its attribute dict is updated with attrs.
nx_add_node(G, n, attrs) ==
    IF has_node(G, n)
    THEN [G EXCEPT !.nodes[NodeIndex(G, n)].data = DictUpdate(@, attrs)]
    ELSE [G EXCEPT !.nodes = Append(@, [id |-> n, data |-> attrs])]

\* DiGraph.add_edge(u, v, **attrs): endpoints that are not nodes yet are created
\* with empty attributes; an existing edge u -> v has its dict updated.
nx_add_edge(G, u, v, attrs) ==
    LET G1 == IF has_node(G, u) THEN G ELSE nx_add_node(G, u, EmptyDict)
        G2 == IF has_node(G1, v) THEN G1 ELSE nx_add_node(G1, v, EmptyDict)
    IN  IF has_edge(G2, u, v)
        THEN [G2 EXCEPT !.edges[EdgeIndex(G2, u, v)].data = DictUpdate(@, attrs)]
        ELSE [G2 EXCEPT !.edges = Append(@, [source |-> u, target |-> v, data |-> attrs])]

\* list(G.predecessors(n)): the sources of the edges into n, in insertion order
predecessors(G, n) ==
    LET sel == SeqFilterIdx(G.edges, [i \in 1..Len(G.edges) |-> G.edges[i].target = n], 1)
    IN  [k \in 1..Len(sel) |-> G.edges[sel[k]].source]

\* list(G.successors(n)): the targets of the edges out of n, in insertion order
successors(G, n) ==
    LET sel == SeqFilterIdx(G.edges, [i \in 1..Len(G.edges) |-> G.edges[i].source = n], 1)
    IN  [k \in 1..Len(sel) |-> G.edges[sel[k]].target]

----------------------------------------------------------------------------
(* CodeGraph (src/src/codex/graph/core.py).  Every method is an operator   *)
(* from the graph before the call to                                       *)
(*   [graph |-> the graph after, raised |-> "None" or the exception,       *)
(*    value |-> the returned value].                                       *)

\* CodeGraph.__init__
CodeGraph_init == EmptyGraph

\* fault variant of add_node: attributes of an existing node are kept (setdefault)
\* instead of being overwritten by the ones given
add_node_KeepOld(G, node_id, attributes) ==
    [graph |-> IF has_node(G, node_id)
               THEN [G EXCEPT !.nodes[NodeIndex(G, node_id)].data = DictUpdate(attributes, @)]
               ELSE nx_add_node(G, node_id, attributes),
     raised |-> "None", value |-> <<>>]

\* CodeGraph.add_node
add_node(G, node_id, attributes) ==
    [graph |-> nx_add_node(G, node_id, attributes), raised |-> "None", value |-> <<>>]

\* fault variant of add_edge: the check of the target is missing, so that
\* DiGraph.add_edge creates the target
add_edge_NoTargetCheck(G, source_id, target_id, attributes) ==
    IF ~has_node(G, source_id)
    THEN [graph |-> G, raised |-> "ValueError: Source node not found", value |-> <<>>]
    ELSE [graph |-> nx_add_edge(G, source_id, target_id, attributes),
          raised |-> "None", value |-> <<>>]

\* fault variant of add_edge: the edge is handed to DiGraph.add_edge, which
\* creates the endpoints it does not find, before the two tests are made
add_edge_TestsAfter(G, source_id, target_id, attributes) ==
    IF ~has_node(G, source_id)
    THEN [graph |-> nx_add_edge(G, source_id, target_id, attributes),
          raised |-> "ValueError: Source node not found", value |-> <<>>]
    ELSE IF ~has_node(G, target_id)
    THEN [graph |-> nx_add_edge(G, source_id, target_id, attributes),
          raised |-> "ValueError: Target node not found", value |-> <<>>]
    ELSE [graph |-> nx_add_edge(G, source_id, target_id, attributes),
          raised |-> "None", value |-> <<>>]

\* CodeGraph.add_edge
add_edge(G, source_id, target_id, attributes) ==
    IF ~has_node(G, source_id)
    THEN [graph |-> G, raised |-> "ValueError: Source node not found", value |-> <<>>]
    ELSE IF ~has_node(G, target_id)
    THEN [graph |-> G, raised |-> "ValueError: Target node not found", value |-> <<>>]
    ELSE [graph |-> nx_add_edge(G, source_id, target_id, attributes),
          raised |-> "None", value |-> <<>>]

IsValueError(r) ==
    r \in {"ValueError: Source node not found", "ValueError: Target node not found"}

RECURSIVE merge_nodes(_, _, _)
\* the first loop of merge_components from position i on; nodes is the caller's
\* list, whose dicts lose their "id" key as they are visited (node_data.pop)
merge_nodes(G, nodes, i) ==
    IF i > Len(nodes) THEN [graph |-> G, raised |-> "None", nodes |-> nodes]
    ELSE IF ~HasKey(nodes[i], "id")
    THEN [graph |-> G, raised |-> "KeyError: id", nodes |-> nodes]
    ELSE LET node_id == nodes[i].id
             rest == DictPop(nodes[i], "id")
             r == add_node(G, node_id, rest)
         IN  merge_nodes(r.graph, [nodes EXCEPT ![i] = rest], i + 1)

RECURSIVE merge_edges(_, _, _)
\* the second loop of merge_components from position i on; an exception of
\* add_edge leaves the loop with the graph as it is at that point
merge_edges(G, edges, i) ==
    IF i > Len(edges) THEN [graph |-> G, raised |-> "None", edges |-> edges]
    ELSE IF ~HasKey(edges[i], "source")
    THEN [graph |-> G, raised |-> "KeyError: source", edges |-> edges]
    ELSE IF ~HasKey(edges[i], "target")
    THEN [graph |-> G, raised |-> "KeyError: target",
          edges |-> [edges EXCEPT ![i] = DictPop(@, "source")]]
    ELSE LET source == edges[i].source
             target == edges[i].target
             rest == DictPop(DictPop(edges[i], "source"), "target")
             r == add_edge(G, source, target, rest)
             popped == [edges EXCEPT ![i] = rest]
         IN  IF r.raised # "None"
             THEN [graph |-> r.graph, raised |-> r.raised, edges |-> popped]
             ELSE merge_edges(r.graph, popped, i + 1)

\* CodeGraph.merge_components; value is the pair of the caller's lists after the call
merge_components(G, nodes, edges) ==
    LET n == merge_nodes(G, nodes, 1)
    IN  IF n.raised # "None"
        THEN [graph |-> n.graph, raised |-> n.raised, value |-> <<n.nodes, edges>>]
        ELSE LET e == merge_edges(n.graph, edges, 1)
             IN  [graph |-> e.graph, raised |-> e.raised, value |-> <<n.nodes, e.edges>>]

\* the list comprehension of get_callers / get_callees:
\* [{"id": x, **self.graph.nodes[x]} for x in ids]
node_dicts(G, ids) ==
    [k \in 1..Len(ids) |-> DictUpdate([id |-> ids[k]], node_data(G, ids[k]))]

\* fault variant of get_callers: the has_node guard is missing, so that
\* DiGraph.predecessors raises for an id that is not a node
get_callers_NoGuard(G, node_id) ==
    IF ~has_node(G, node_id)
    THEN [graph |-> G, raised |-> "NetworkXError", value |-> <<>>]
    ELSE [graph |-> G, raised |-> "None", value |-> node_dicts(G, predecessors(G, node_id))]

\* CodeGraph.get_callers
get_callers(G, node_id) ==
    IF ~has_node(G, node_id)
    THEN [graph |-> G, raised |-> "None", value |-> <<>>]
    ELSE [graph |-> G, raised |-> "None", value |-> node_dicts(G, predecessors(G, node_id))]

\* CodeGraph.get_callees
get_callees(G, node_id) ==
    IF ~has_node(G, node_id)
    THEN [graph |-> G, raised |-> "None", value |-> <<>>]
    ELSE [graph |-> G, raised |-> "None", value |-> node_dicts(G, successors(G, node_id))]


----------------------------------------------------------------------------
(* The node-link JSON encoding (networkx.readwrite.json_graph) behind      *)
(* serialize_to_json / load_from_json.  A document is                      *)
(*   [directed, multigraph, nodes |-> list of dicts, links |-> list of     *)
(*    dicts]: a node's dict is its attributes plus "id", a link's dict is  *)
(* its attributes plus "source" and "target".  json.dump / json.load keep  *)
(* strings, booleans, lists and string-keyed dicts as they are, which is   *)
(* all such a document holds.                                              *)

RECURSIVE edges_view(_, _)
\* G.edges: the edges grouped by source in node order, each group in insertion order
edges_view(G, i) ==
    IF i > Len(G.nodes) THEN <<>>
    ELSE LET n == G.nodes[i].id
             sel == SeqFilterIdx(G.edges,
                        [k \in 1..Len(G.edges) |-> G.edges[k].source = n], 1)
         IN  [k \in 1..Len(sel) |-> G.edges[sel[k]]] \o edges_view(G, i + 1)

\* fault variant of node_link_data: a link carries its endpoints only
node_link_data_BareLinks(G) ==
    LET ev == edges_view(G, 1)
    IN  [directed |-> TRUE, multigraph |-> FALSE,
         nodes |-> [i \in 1..Len(G.nodes) |->
                        DictUpdate(G.nodes[i].data, [id |-> G.nodes[i].id])],
         links |-> [i \in 1..Len(ev) |->
                        [source |-> ev[i].source, target |-> ev[i].target]]]

\* json_graph.node_link_data(G, edges="links")
node_link_data(G) ==
    LET ev == edges_view(G, 1)
    IN  [directed |-> TRUE, multigraph |-> FALSE,
         nodes |-> [i \in 1..Len(G.nodes) |->
                        DictUpdate(G.nodes[i].data, [id |-> G.nodes[i].id])],
         links |-> [i \in 1..Len(ev) |->
                        DictUpdate(ev[i].data,
                                   [source |-> ev[i].source, target |-> ev[i].target])]]

RECURSIVE link_nodes(_, _, _)
link_nodes(G, nodes, i) ==
    IF i > Len(nodes) THEN G
    ELSE link_nodes(nx_add_node(G, nodes[i].id, DictPop(nodes[i], "id")), nodes, i + 1)

RECURSIVE link_edges(_, _, _)
link_edges(G, links, i) ==
    IF i > Len(links) THEN G
    ELSE link_edges(nx_add_edge(G, links[i].source, links[i].target,
                                DictPop(DictPop(links[i], "source"), "target")),
                    links, i + 1)

\* fault variant of node_link_graph: the links are stored as they are read,
\* without their endpoints being made nodes
node_link_graph_RawLinks(data) ==
    [link_nodes(EmptyGraph, data.nodes, 1) EXCEPT !.edges =
        [i \in 1..Len(data.links) |->
            [source |-> data.links[i].source, target |-> data.links[i].target,
             data |-> DictPop(DictPop(data.links[i], "source"), "target")]]]

\* json_graph.node_link_graph(data, edges="links") for a document that says
\* directed = true, multigraph = false (what node_link_data writes for a DiGraph):
\* every node dict is added with add_node, every link with DiGraph.add_edge
node_link_graph(data) ==
    link_edges(link_nodes(EmptyGraph, data.nodes, 1), data.links, 1)

\* CodeGraph.serialize_to_json: value is the document written to file_path
serialize_to_json(G) ==
    [graph |-> G, raised |-> "None", value |-> node_link_data(G)]

\* CodeGraph.load_from_json: data is the document read from file_path
load_from_json(G, data) ==
    [graph |-> node_link_graph(data), raised |-> "None", value |-> <<>>]

----------------------------------------------------------------------------
(* Inputs of the graph operations.                                         *)

FileId == <<"f.py">>
FuncA == <<"f.py", "a">>
FuncB == <<"f.py", "b">>

\* the node ids offered to the graph operations
Ids == {FileId, FuncA, FuncB}

\* the targets offered to add_edge: the code entities (nothing defines or calls a file)
Targets == {FuncA, FuncB}

\* the keyword arguments offered to add_node
NodeAttrs == {EmptyDict, [type |-> "Function"]}

\* the keyword arguments offered to add_edge
EdgeAttrs == {[type |-> "CALLS"], [type |-> "DEFINES"]}

\* the (nodes, edges) batches offered to merge_components: the batch of
\* test_merge_components, one-node and one-edge batches, batches whose edges
\* miss an endpoint, and a batch whose dict has lost its "id" (a list that was
\* merged before)
Batches ==
    {[nodes |-> <<[id |-> FileId, type |-> "File"], [id |-> FuncA, type |-> "Function"]>>,
      edges |-> <<[source |-> FileId, target |-> FuncA, type |-> "DEFINES"]>>],
     [nodes |-> <<[id |-> FuncB, type |-> "Function"]>>,
      edges |-> <<[source |-> FuncA, target |-> FuncB, type |-> "CALLS"],
                  [source |-> FileId, target |-> FuncB, type |-> "DEFINES"]>>],
     [nodes |-> <<[id |-> FuncA]>>, edges |-> <<>>],
     [nodes |-> <<[id |-> FuncB, type |-> "Function"]>>, edges |-> <<>>],
     [nodes |-> <<>>, edges |-> <<[source |-> FuncB, target |-> FuncA, type |-> "CALLS"]>>],
     [nodes |-> <<>>, edges |-> <<[source |-> FuncA, target |-> FuncA]>>],
     [nodes |-> <<[type |-> "Function"]>>, edges |-> <<>>]}

\* documents offered to load_from_json besides the ones serialize_to_json wrote:
\* a well-formed one, and hand-written ones whose links name ids that are not
\* in the node list
SampleDocs ==
    {[directed |-> TRUE, multigraph |-> FALSE,
      nodes |-> <<[id |-> FileId, type |-> "File"], [id |-> FuncA, type |-> "Function"]>>,
      links |-> <<[source |-> FileId, target |-> FuncA, type |-> "DEFINES"]>>],
     [directed |-> TRUE, multigraph |-> FALSE,
      nodes |-> <<[id |-> FuncA, type |-> "Function"]>>,
      links |-> <<[source |-> FuncA, target |-> FuncB, type |-> "CALLS"]>>],
     [directed |-> TRUE, multigraph |-> FALSE,
      nodes |-> <<>>,
      links |-> <<[source |-> FuncB, target |-> FuncA]>>]}

NoDoc == [written |-> FALSE, doc |-> node_link_data(EmptyGraph)]

----------------------------------------------------------------------------
(* Source files.  A parsed file is                                         *)
(*   [has_error |-> root_node.has_error,                                   *)
(*    tree |-> the definitions and calls of the syntax tree in document    *)
(*             order, each [type, name, parent] with parent the index of   *)
(*             the nearest enclosing definition (0: the module),           *)
(*    imports |-> the dotted names the import queries capture].            *)
(* tree-sitter recovers from syntax errors: the tree of a file with        *)
(* has_error still holds the definitions it could parse, and the queries   *)
(* capture them.                                                           *)

Cls(name, parent) == [type |-> "class_definition", name |-> name, parent |-> parent]
Fn(name, parent) == [type |-> "function_definition", name |-> name, parent |-> parent]
Call(name, parent) == [type |-> "call", name |-> name, parent |-> parent]

\* def a(): b()        def b(): pass
SourceA == [has_error |-> FALSE, imports |-> <<"os">>,
            tree |-> <<Fn("a", 0), Call("b", 1), Fn("b", 0)>>]

\* class C: def m(self): f()        def f(): pass
SourceB == [has_error |-> FALSE, imports |-> <<>>,
            tree |-> <<Cls("C", 0), Fn("m", 1), Call("f", 2), Fn("f", 0)>>]

\* def ok(): a()       def broken(:      (a syntax error after a sound definition)
SourceErr == [has_error |-> TRUE, imports |-> <<>>,
              tree |-> <<Fn("ok", 0), Call("a", 1)>>]

\* import os; import os      a()      def h(): m()
SourceTop == [has_error |-> FALSE, imports |-> <<"os", "os">>,
              tree |-> <<Call("a", 0), Fn("h", 0), Call("m", 2)>>]

\* def a():
\*     def b(): a()
SourceNested == [has_error |-> FALSE, imports |-> <<>>,
                 tree |-> <<Fn("a", 0), Fn("b", 1), Call("a", 2)>>]

Sources == {SourceA, SourceB, SourceErr, SourceTop, SourceNested}

\* the repository-relative path of the i-th file of the walk
Paths == <<"p1.py", "p2.py", "p3.py">>

RECURSIVE ClassAncestor(_, _)
\* the nearest class_definition strictly above node k of the tree, 0 if none
\* (the search_node loop of resolve_calls, _get_node_ancestors of the parser)
ClassAncestor(tree, k) ==
    IF k = 0 \/ tree[k].parent = 0 THEN 0
    ELSE IF tree[tree[k].parent].type = "class_definition" THEN tree[k].parent
    ELSE ClassAncestor(tree, tree[k].parent)

RECURSIVE IsInside(_, _, _)
\* node k lies in the subtree of node c
IsInside(tree, k, c) ==
    IF k = 0 THEN FALSE
    ELSE IF tree[k].parent = c THEN TRUE
    ELSE IsInside(tree, tree[k].parent, c)

\* the indices of the nodes of the tree that satisfy want, in document order
Captures(tree, want) == SeqFilterIdx(tree, want, 1)

----------------------------------------------------------------------------
(* The Symbol Table: a Python dict, which keeps its keys in insertion      *)
(* order; a sequence of [key, value] with no key twice.                    *)

st_keys(st) == [i \in 1..Len(st) |-> st[i].key]

st_has(st, key) == \E i \in 1..Len(st) : st[i].key = key

\* symbol_table[key] = value
st_set(st, key, value) ==
    IF st_has(st, key)
    THEN [i \in 1..Len(st) |-> IF st[i].key = key THEN [key |-> key, value |-> value]
                                                  ELSE st[i]]
    ELSE Append(st, [key |-> key, value |-> value])

RECURSIVE st_register(_, _, _, _)
\* the entries of nodes numbered i..k registered in turn
st_register(st, nodes, i, k) ==
    IF i > k THEN st
    ELSE st_register(st_set(st, nodes[i].id, nodes[i]), nodes, i + 1, k)

----------------------------------------------------------------------------
(* src/src/codex_veritas/analysis/ast_parser.py                            *)

\* the node dict of a definition
ast_node(id, type, file, name) == [id |-> id, type |-> type, file |-> file, name |-> name]

RECURSIVE class_nodes(_, _, _, _)
\* the class loop of parse_file from the i-th captured class on: the class
\* node, then a method node for every function_definition in the class body
class_nodes(path, tree, classes, i) ==
    IF i > Len(classes) THEN <<>>
    ELSE LET c == classes[i]
             unique_id == <<path, tree[c].name>>
             methods == Captures(tree, [k \in 1..Len(tree) |->
                            tree[k].type = "function_definition" /\ IsInside(tree, k, c)])
         IN  <<ast_node(unique_id, "class", path, tree[c].name)>>
             \o [j \in 1..Len(methods) |->
                    ast_node(unique_id \o <<tree[methods[j]].name>>, "method", path,
                             tree[methods[j]].name)]
             \o class_nodes(path, tree, classes, i + 1)

\* the nodes parse_file appends, in order; table stands for its parameter
\* symbol_table.  honoured tells whether the query
\* engine evaluates the (#not-inside? @func.name class_definition) predicate of
\* func_query; when it does not, the query captures the methods as well.
parse_file_nodes(path, file, honoured) ==
    LET tree == file.tree
        classes == Captures(tree, [k \in 1..Len(tree) |-> tree[k].type = "class_definition"])
        funcs == Captures(tree, [k \in 1..Len(tree) |->
                     /\ tree[k].type = "function_definition"
                     /\ (honoured => ClassAncestor(tree, k) = 0)])
    IN  class_nodes(path, tree, classes, 1)
        \o [j \in 1..Len(funcs) |->
               ast_node(<<path, tree[funcs[j]].name>>, "function", path, tree[funcs[j]].name)]

\* parse_file running to its end: the nodes are returned and all registered
parse_file(path, file, table, honoured) ==
    LET nodes == parse_file_nodes(path, file, honoured)
    IN  [nodes |-> nodes, raised |-> "None",
         symbol_table |-> st_register(table, nodes, 1, Len(nodes))]

\* parse_file (or the open before it) raising after k definitions were
\* registered: the local list nodes is lost, the Symbol Table keeps the k entries
parse_file_raising(path, file, table, honoured, k) ==
    LET nodes == parse_file_nodes(path, file, honoured)
    IN  [nodes |-> <<>>, raised |-> "Exception",
         symbol_table |-> st_register(table, nodes, 1, k)]

RECURSIVE find_caller(_, _, _, _)
\* the while temp_node loop of resolve_calls from node k upwards: the id of the
\* nearest enclosing function_definition whose rebuilt id is a key of the
\* Symbol Table, <<>> (caller_id = None) when the root is passed without one
find_caller(path, tree, table, k) ==
    IF k = 0 THEN <<>>
    ELSE IF tree[k].type = "function_definition"
    THEN LET cls == ClassAncestor(tree, k)
             potential_id == IF cls # 0 THEN <<path, tree[cls].name, tree[k].name>>
                             ELSE <<path, tree[k].name>>
         IN  IF st_has(table, potential_id) THEN potential_id
             ELSE find_caller(path, tree, table, tree[k].parent)
    ELSE find_caller(path, tree, table, tree[k].parent)

\* fault variant of ends_with: the key has to be the called name itself
ends_with_WholeKey(key, called_name) == key = <<called_name>>

\* key.endswith("::" + called_name)
ends_with(key, called_name) == Len(key) >= 2 /\ key[Len(key)] = called_name

\* fault variant of find_target: the loop has no break, the last match stays
find_target_NoBreak(table, called_name) ==
    LET hits == SeqFilterIdx(table,
                    [i \in 1..Len(table) |-> ends_with(table[i].key, called_name)], 1)
    IN  IF hits = <<>> THEN <<>> ELSE table[hits[Len(hits)]].key

\* the for key in table loop: the first key, in insertion order, that
\* ends with ::called_name, <<>> (target_id = None) when there is none
find_target(table, called_name) ==
    LET hits == SeqFilterIdx(table,
                    [i \in 1..Len(table) |-> ends_with(table[i].key, called_name)], 1)
    IN  IF hits = <<>> THEN <<>> ELSE table[hits[1]].key

RECURSIVE call_edges_NoCallerTest(_, _, _, _, _)
\* fault variant of call_edges: "if not caller_id: continue" is missing and
\* the edge is appended as soon as the callee resolves
call_edges_NoCallerTest(path, tree, table, calls, i) ==
    IF i > Len(calls) THEN <<>>
    ELSE LET caller_id == find_caller(path, tree, table, calls[i])
             target_id == find_target(table, tree[calls[i]].name)
         IN  (IF target_id # <<>>
              THEN <<[source |-> caller_id, target |-> target_id, type |-> "CALLS"]>>
              ELSE <<>>)
             \o call_edges_NoCallerTest(path, tree, table, calls, i + 1)

RECURSIVE call_edges(_, _, _, _, _)
\* the call loop of resolve_calls from the i-th captured call on
call_edges(path, tree, table, calls, i) ==
    IF i > Len(calls) THEN <<>>
    ELSE LET caller_id == find_caller(path, tree, table, calls[i])
             target_id == find_target(table, tree[calls[i]].name)
         IN  (IF caller_id # <<>> /\ target_id # <<>>
              THEN <<[source |-> caller_id, target |-> target_id, type |-> "CALLS"]>>
              ELSE <<>>)
             \o call_edges(path, tree, table, calls, i + 1)

\* resolve_calls
resolve_calls(path, file, table) ==
    LET tree == file.tree
        calls == Captures(tree, [k \in 1..Len(tree) |-> tree[k].type = "call"])
    IN  call_edges(path, tree, table, calls, 1)

RECURSIVE register_called(_, _, _, _, _)
\* the called names of the calls numbered i.. entered under the path of the file
register_called(path, tree, table, calls, i) ==
    IF i > Len(calls) THEN table
    ELSE register_called(path, tree,
             st_set(table, <<path, tree[calls[i]].name>>,
                    ast_node(<<path, tree[calls[i]].name>>, "function", path,
                             tree[calls[i]].name)),
             calls, i + 1)

\* fault variant of resolve_calls_symbol_table: every called name is entered
\* into the dict as a function of the file
resolve_calls_symbol_table_Registers(path, file, table) ==
    register_called(path, file.tree, table,
        Captures(file.tree, [k \in 1..Len(file.tree) |-> file.tree[k].type = "call"]), 1)

\* the dict symbol_table that was passed to resolve_calls, after the call: the
\* function tests membership (potential_id in symbol_table) and iterates over
\* the keys (for key in symbol_table); it has no assignment to the dict
resolve_calls_symbol_table(path, file, table) == table

----------------------------------------------------------------------------
(* src/src/codex/ingestion/parser.py                                       *)
(* The spans start_line / end_line of a node dict are left out: the trees  *)
(* of this model carry no positions and no operation reads them.           *)

\* _create_unique_id: file_path_str::part::part
create_unique_id(file_path_str, parts) == <<file_path_str>> \o parts

\* the node dict of an entity
entity(id, type, name, file_path) ==
    [id |-> id, type |-> type, name |-> name, file_path |-> file_path]

RECURSIVE definition_components(_, _, _, _)
\* the loop over captures (the class captures, then the function captures)
\* from the i-th capture on: [nodes, edges] in the order they are appended
definition_components(path, tree, captures, i) ==
    IF i > Len(captures) THEN [nodes |-> <<>>, edges |-> <<>>]
    ELSE
      LET c == captures[i]
          rest == definition_components(path, tree, captures, i + 1)
          file_id == <<path>>
          here ==
            IF tree[c].type = "class_definition"
            THEN LET class_id == create_unique_id(path, <<tree[c].name>>)
                     methods == Captures(tree, [k \in 1..Len(tree) |->
                         tree[k].type = "function_definition" /\ IsInside(tree, k, c)])
                 IN  [nodes |-> <<entity(class_id, "Class", tree[c].name, path)>>
                          \o [j \in 1..Len(methods) |->
                                entity(create_unique_id(path, <<tree[c].name, tree[methods[j]].name>>),
                                       "Method", tree[methods[j]].name, path)],
                      edges |-> <<[source |-> file_id, target |-> class_id, type |-> "DEFINES"]>>
                          \o [j \in 1..Len(methods) |->
                                [source |-> class_id,
                                 target |-> create_unique_id(path, <<tree[c].name, tree[methods[j]].name>>),
                                 type |-> "DEFINES"]]]
            ELSE IF ClassAncestor(tree, c) = 0
            THEN LET func_id == create_unique_id(path, <<tree[c].name>>)
                 IN  [nodes |-> <<entity(func_id, "Function", tree[c].name, path)>>,
                      edges |-> <<[source |-> file_id, target |-> func_id, type |-> "DEFINES"]>>]
            ELSE [nodes |-> <<>>, edges |-> <<>>]
      IN  [nodes |-> here.nodes \o rest.nodes, edges |-> here.edges \o rest.edges]

RECURSIVE import_components_NoDedup(_, _, _, _, _)
\* fault variant of import_components: the test "if not any(...)" is missing
import_components_NoDedup(path, imports, nodes, edges, i) ==
    IF i > Len(imports) THEN [nodes |-> nodes, edges |-> edges]
    ELSE LET import_id == <<"import", imports[i]>>
         IN  import_components_NoDedup(path, imports,
                 Append(nodes, entity(import_id, "Import", imports[i], "external")),
                 Append(edges, [source |-> <<path>>, target |-> import_id, type |-> "IMPORTS"]),
                 i + 1)

RECURSIVE import_components(_, _, _, _, _)
\* the loop over import_captures from the i-th on, given the nodes so far
import_components(path, imports, nodes, edges, i) ==
    IF i > Len(imports) THEN [nodes |-> nodes, edges |-> edges]
    ELSE LET import_id == <<"import", imports[i]>>
             seen == \E k \in 1..Len(nodes) : nodes[k].id = import_id
             nodes1 == IF seen THEN nodes
                       ELSE Append(nodes, entity(import_id, "Import", imports[i], "external"))
         IN  import_components(path, imports, nodes1,
                 Append(edges, [source |-> <<path>>, target |-> import_id, type |-> "IMPORTS"]),
                 i + 1)

\* fault variant of parse_file_to_graph_components: the File node is not appended
parse_file_to_graph_components_NoFileNode(path, file, raises) ==
    IF raises \/ file.has_error THEN [nodes |-> <<>>, edges |-> <<>>, raised |-> "None"]
    ELSE LET tree == file.tree
             captures ==
                 Captures(tree, [k \in 1..Len(tree) |-> tree[k].type = "class_definition"])
                 \o Captures(tree, [k \in 1..Len(tree) |-> tree[k].type = "function_definition"])
             defs == definition_components(path, tree, captures, 1)
             all == import_components(path, file.imports, defs.nodes, defs.edges, 1)
         IN  [nodes |-> all.nodes, edges |-> all.edges, raised |-> "None"]

\* parse_file_to_graph_components(file_path); raises tells whether something
\* inside its try block raises (the handlers return [], [])
parse_file_to_graph_components(path, file, raises) ==
    IF raises \/ file.has_error THEN [nodes |-> <<>>, edges |-> <<>>, raised |-> "None"]
    ELSE LET tree == file.tree
             captures ==
                 Captures(tree, [k \in 1..Len(tree) |-> tree[k].type = "class_definition"])
                 \o Captures(tree, [k \in 1..Len(tree) |-> tree[k].type = "function_definition"])
             defs == definition_components(path, tree, captures, 1)
             all == import_components(path, file.imports,
                        <<entity(<<path>>, "File", path, path)>> \o defs.nodes, defs.edges, 1)
         IN  [nodes |-> all.nodes, edges |-> all.edges, raised |-> "None"]

----------------------------------------------------------------------------
(* src/src/codex/ingestion/main.py                                         *)

\* the positional parameters parse_file_to_graph_components declares
ParserParams == 1

\* the positional arguments the call in parse passes (file_path, repo_path)
ParserArgs == 2

\* the call parse_file_to_graph_components(file_path, repo_path) of parse: a
\* call whose arguments do not fit the parameters raises TypeError before the
\* body runs
call_parser(path, file, raises) ==
    IF ParserArgs # ParserParams
    THEN [nodes |-> <<>>, edges |-> <<>>, raised |-> "TypeError"]
    ELSE parse_file_to_graph_components(path, file, raises)

----------------------------------------------------------------------------
(* The state machine of one CodeGraph instance driven by its callers.      *)

Ret(op, args, r) == [op |-> op, args |-> args, raised |-> r.raised, value |-> r.value]

WithinBounds(G) == Len(G.edges) <= MaxEdges

\* no ingestion run is under way
NoRun ==
    /\ repo = <<>>
    /\ not_inside = FALSE
    /\ entry = "none"
    /\ pc = "idle"
    /\ idx = 1
    /\ symbol_table = <<>>
    /\ all_nodes = <<>>
    /\ all_edges = <<>>
    /\ output = [written |-> FALSE, nodes |-> <<>>, edges |-> <<>>]
    /\ collected = {}
    /\ resolved = {}
    /\ raised1 = {}
    /\ raised2 = {}

\* the job ids uuid.uuid4() can give
JobIds == 1..MaxJobs

\* no request was answered yet
NoResponse == [request |-> "none", job_id |-> 0, code |-> 0, body |-> EmptyDict]

\* no caller holds a batch, the ranker has not run, the web app has no job
NoBatch ==
    /\ batch = [made |-> FALSE, nodes |-> <<>>, edges |-> <<>>,
               built |-> [nodes |-> <<>>, edges |-> <<>>], passed |-> "none"]
    /\ merges = 0
    /\ centrality_scores = [raised |-> FALSE, scores |-> <<>>]
    /\ JOB_STATUSES = EmptyDict
    /\ background_tasks = [j \in JobIds |-> "none"]
    /\ response = NoResponse

Init ==
    /\ graph = CodeGraph_init
    /\ ret = [op |-> "init", args |-> <<>>, raised |-> "None", value |-> <<>>]
    /\ new_graph = CodeGraph_init
    /\ disk = NoDoc
    /\ NoRun
    /\ NoBatch

AddNode ==
    \E n \in Ids, a \in NodeAttrs :
        LET r == add_node(graph, n, a)
        IN  /\ WithinBounds(r.graph)
            /\ graph' = r.graph
            /\ ret' = Ret("add_node", <<n, a>>, r)
            /\ UNCHANGED <<new_graph, disk>>
            /\ UNCHANGED rvars
            /\ UNCHANGED mvars

AddEdge ==
    \E s \in Ids, t \in Targets, a \in EdgeAttrs :
        LET r == add_edge(graph, s, t, a)
        IN  /\ WithinBounds(r.graph)
            /\ graph' = r.graph
            /\ ret' = Ret("add_edge", <<s, t, a>>, r)
            /\ UNCHANGED <<new_graph, disk>>
            /\ UNCHANGED rvars
            /\ UNCHANGED mvars

MergeComponents ==
    \E b \in Batches :
        LET r == merge_components(graph, b.nodes, b.edges)
        IN  /\ WithinBounds(r.graph)
            /\ graph' = r.graph
            /\ ret' = Ret("merge_components", <<b.nodes, b.edges>>, r)
            /\ UNCHANGED <<new_graph, disk>>
            /\ UNCHANGED rvars
            /\ UNCHANGED mvars

LoadFromJson ==
    \E d \in SampleDocs :
        LET r == load_from_json(graph, d)
        IN  /\ graph' = r.graph
            /\ ret' = Ret("load_from_json", <<d>>, r)
            /\ UNCHANGED <<new_graph, disk>>
            /\ UNCHANGED rvars
            /\ UNCHANGED mvars

GetCallers ==
    \E x \in Ids :
        LET r == get_callers(graph, x)
        IN  /\ graph' = r.graph
            /\ ret' = Ret("get_callers", <<x>>, r)
            /\ UNCHANGED <<new_graph, disk>>
            /\ UNCHANGED rvars
            /\ UNCHANGED mvars

GetCallees ==
    \E x \in Ids :
        LET r == get_callees(graph, x)
        IN  /\ graph' = r.graph
            /\ ret' = Ret("get_callees", <<x>>, r)
            /\ UNCHANGED <<new_graph, disk>>
            /\ UNCHANGED rvars
            /\ UNCHANGED mvars

Next ==
    \/ AddNode
    \/ AddEdge
    \/ MergeComponents
    \/ LoadFromJson
    \/ GetCallers
    \/ GetCallees

Spec == Init /\ [][Next]_vars

----------------------------------------------------------------------------
(* The round trip of test_serialization_deserialization: a graph is built  *)
(* by merge_components, written with serialize_to_json, and read back with *)
(* load_from_json into a second, fresh CodeGraph (new_graph).              *)

BuildByMerge ==
    /\ ~disk.written
    /\ MergeComponents

SerializeToJson ==
    /\ ~disk.written
    /\ LET r == serialize_to_json(graph)
       IN  /\ graph' = r.graph
           /\ disk' = [written |-> TRUE, doc |-> r.value]
           /\ ret' = [op |-> "serialize_to_json", args |-> <<>>,
                      raised |-> r.raised, value |-> <<>>]
    /\ UNCHANGED new_graph
    /\ UNCHANGED rvars
    /\ UNCHANGED mvars

ReloadFromJson ==
    /\ disk.written
    /\ LET r == load_from_json(CodeGraph_init, disk.doc)
       IN  /\ new_graph' = r.graph
           /\ ret' = Ret("reload", <<>>, r)
    /\ UNCHANGED <<graph, disk>>
    /\ UNCHANGED rvars
    /\ UNCHANGED mvars

NextRoundTrip ==
    \/ BuildByMerge
    \/ SerializeToJson
    \/ ReloadFromJson

SpecRoundTrip == Init /\ [][NextRoundTrip]_vars

----------------------------------------------------------------------------
(* An ingestion run over a repository, through either entry point:         *)
(* build_code_graph (ast_parser.py), two loops over the files and a dump,  *)
(* or parse (ingestion/main.py), one loop that parses and merges each file *)
(* into main_graph (the variable graph) and then serializes it (disk).     *)
(* An exception inside a per-file step is an input of the step: the file   *)
(* may be unreadable, and the parser may fail at any point.                *)

RECURSIVE SeqsUpTo(_, _)
\* the sequences over S of length 1..n
SeqsUpTo(S, n) ==
    IF n = 0 THEN {}
    ELSE LET shorter == SeqsUpTo(S, n - 1)
         IN  {<<x>> : x \in S} \cup shorter \cup {Append(q, x) : q \in shorter, x \in S}

Repos == SeqsUpTo(Sources, MaxFiles)

InitRun ==
    /\ graph = CodeGraph_init
    /\ ret = [op |-> "init", args |-> <<>>, raised |-> "None", value |-> <<>>]
    /\ new_graph = CodeGraph_init
    /\ disk = NoDoc
    /\ repo \in Repos
    /\ not_inside \in BOOLEAN
    /\ entry \in {"build_code_graph", "parse"}
    /\ pc = IF entry = "build_code_graph" THEN "pass1" ELSE "parse_loop"
    /\ idx = 1
    /\ symbol_table = <<>>
    /\ all_nodes = <<>>
    /\ all_edges = <<>>
    /\ output = [written |-> FALSE, nodes |-> <<>>, edges |-> <<>>]
    /\ collected = {}
    /\ resolved = {}
    /\ raised1 = {}
    /\ raised2 = {}
    /\ NoBatch

\* fault variant of loop_done: the loop is left after its first iteration
loop_done_Early(i, files) == i > 1

\* a for loop over files has gone through all of them
loop_done(i, files) == i > Len(files)

\* one iteration of the pass 1 loop of build_code_graph (try / except included)
Pass1File ==
    /\ pc = "pass1"
    /\ ~loop_done(idx, repo)
    /\ \/ LET r == parse_file(Paths[idx], repo[idx], symbol_table, not_inside)
          IN  /\ symbol_table' = r.symbol_table
              /\ all_nodes' = all_nodes \o r.nodes
              /\ raised1' = raised1
       \/ \E k \in 0..Len(parse_file_nodes(Paths[idx], repo[idx], not_inside)) :
             LET r == parse_file_raising(Paths[idx], repo[idx], symbol_table, not_inside, k)
             IN  /\ symbol_table' = r.symbol_table
                 /\ all_nodes' = all_nodes
                 /\ raised1' = raised1 \cup {idx}
    /\ collected' = collected \cup {idx}
    /\ idx' = idx + 1
    /\ UNCHANGED <<repo, not_inside, entry, pc, all_edges, output, resolved, raised2>>
    /\ UNCHANGED gvars
    /\ UNCHANGED mvars

\* the pass 1 loop ends, the pass 2 loop begins
Pass1Done ==
    /\ pc = "pass1"
    /\ loop_done(idx, repo)
    /\ pc' = "pass2"
    /\ idx' = 1
    /\ UNCHANGED <<repo, not_inside, entry, symbol_table, all_nodes, all_edges, output,
                   collected, resolved, raised1, raised2>>
    /\ UNCHANGED gvars
    /\ UNCHANGED mvars

\* one iteration of the pass 2 loop of build_code_graph (try / except included)
Pass2File ==
    /\ pc = "pass2"
    /\ ~loop_done(idx, repo)
    /\ \/ /\ all_edges' = all_edges \o resolve_calls(Paths[idx], repo[idx], symbol_table)
          /\ symbol_table' = resolve_calls_symbol_table(Paths[idx], repo[idx], symbol_table)
          /\ raised2' = raised2
       \/ /\ all_edges' = all_edges
          /\ symbol_table' = symbol_table
          /\ raised2' = raised2 \cup {idx}
    /\ resolved' = resolved \cup {idx}
    /\ idx' = idx + 1
    /\ UNCHANGED <<repo, not_inside, entry, pc, all_nodes, output, collected, raised1>>
    /\ UNCHANGED gvars
    /\ UNCHANGED mvars

\* the pass 2 loop ends; full_graph is dumped to output_file
Pass2Done ==
    /\ pc = "pass2"
    /\ loop_done(idx, repo)
    /\ output' = [written |-> TRUE, nodes |-> all_nodes, edges |-> all_edges]
    /\ pc' = "done"
    /\ UNCHANGED <<repo, not_inside, entry, idx, symbol_table, all_nodes, all_edges,
                   collected, resolved, raised1, raised2>>
    /\ UNCHANGED gvars
    /\ UNCHANGED mvars

\* parse: one iteration of its loop (the call of the parser, then
\* merge_components; neither is inside a try), or, after the last file, the
\* serialization of main_graph.  An exception leaves parse: the run is aborted.
ParseStep ==
    /\ pc = "parse_loop"
    /\ IF ~loop_done(idx, repo)
       THEN \E raises \in BOOLEAN :
              LET c == call_parser(Paths[idx], repo[idx], raises)
                  m == merge_components(graph, c.nodes, c.edges)
              IN  IF c.raised # "None"
                  THEN /\ pc' = "aborted"
                       /\ raised1' = raised1 \cup {idx}
                       /\ UNCHANGED <<graph, idx, collected, disk>>
                  ELSE /\ graph' = m.graph
                       /\ collected' = collected \cup {idx}
                       /\ raised1' = IF raises THEN raised1 \cup {idx} ELSE raised1
                       /\ IF m.raised # "None"
                          THEN pc' = "aborted" /\ idx' = idx
                          ELSE pc' = pc /\ idx' = idx + 1
                       /\ UNCHANGED disk
       ELSE /\ disk' = [written |-> TRUE, doc |-> serialize_to_json(graph).value]
            /\ pc' = "done"
            /\ UNCHANGED <<graph, idx, collected, raised1>>
    /\ UNCHANGED <<repo, not_inside, entry, symbol_table, all_nodes, all_edges, output,
                   resolved, raised2>>
    /\ UNCHANGED <<ret, new_graph>>
    /\ UNCHANGED mvars

NextRun ==
    \/ Pass1File
    \/ Pass1Done
    \/ Pass2File
    \/ Pass2Done
    \/ ParseStep

SpecRun == InitRun /\ [][NextRun]_vars

\* the steps of a run are taken until it has ended
FairRun == SpecRun /\ WF_vars(NextRun)

----------------------------------------------------------------------------
(* Properties of CodeGraph.                                                *)

\* C1: add_edge(source, target) raises the missing-endpoint ValueError exactly
\* when source or target is not a node of the graph it is called on, whatever
\* calls came before; when both are nodes it raises nothing and the edge
\* source -> target is in the graph afterwards.
C1_AddEdgeGate ==
    [][ret'.op = "add_edge" =>
        LET s == ret'.args[1]
            t == ret'.args[2]
            both == has_node(graph, s) /\ has_node(graph, t)
        IN  /\ IsValueError(ret'.raised) <=> ~both
            /\ both => (ret'.raised = "None" /\ has_edge(graph', s, t))]_vars

\* C1 witness: add_edge has just failed on a graph that holds its source but
\* not its target (test_add_edge_raises_error_for_missing_node).
C1_Witness ==
    /\ ret.op = "add_edge"
    /\ ret.raised = "ValueError: Target node not found"
    /\ has_node(graph, ret.args[1])
    /\ ~has_node(graph, ret.args[2])

\* C2: in every reachable state of the graph, whatever add_node, add_edge,
\* merge_components and load_from_json calls led to it (failed ones included),
\* the source and the target of every edge are nodes.
C2_EdgeEndpointsAreNodes ==
    \A i \in 1..Len(graph.edges) :
        has_node(graph, graph.edges[i].source) /\ has_node(graph, graph.edges[i].target)

\* C2 witness: the graph holds an edge after a document whose links name an
\* id missing from its node list was loaded.
C2_Witness ==
    /\ ret.op = "load_from_json"
    /\ Len(graph.edges) > 0
    /\ \E i \in 1..Len(ret.args[1].links) :
           ret.args[1].links[i].target
               \notin {ret.args[1].nodes[k].id : k \in 1..Len(ret.args[1].nodes)}

\* the sources of the edges of kind CALLS into x
CallsSources(G, x) ==
    {G.edges[i].source : i \in {k \in 1..Len(G.edges) :
        G.edges[k].target = x /\ HasKey(G.edges[k].data, "type")
        /\ G.edges[k].data.type = "CALLS"}}

\* the targets of the edges of kind CALLS out of x
CallsTargets(G, x) ==
    {G.edges[i].target : i \in {k \in 1..Len(G.edges) :
        G.edges[k].source = x /\ HasKey(G.edges[k].data, "type")
        /\ G.edges[k].data.type = "CALLS"}}

ReturnedIds(value) == {value[i].id : i \in 1..Len(value)}

\* C7: for every node x, get_callers(x) returns exactly the nodes with a CALLS
\* edge to x and get_callees(x) exactly the nodes x has a CALLS edge to; a node
\* tied to x only by a DEFINES edge is not returned.
C7_CallersAreCallsOnly ==
    /\ (ret.op = "get_callers" /\ has_node(graph, ret.args[1]))
           => ReturnedIds(ret.value) = CallsSources(graph, ret.args[1])
    /\ (ret.op = "get_callees" /\ has_node(graph, ret.args[1]))
           => ReturnedIds(ret.value) = CallsTargets(graph, ret.args[1])

\* C8: get_callers(x) and get_callees(x) of an id x that is not a node return
\* the empty list, raise nothing and leave the graph as it was.
C8_UnknownIdGivesEmpty ==
    [][(ret'.op \in {"get_callers", "get_callees"} /\ ~has_node(graph, ret'.args[1])) =>
        /\ ret'.value = <<>>
        /\ ret'.raised = "None"
        /\ graph' = graph]_vars

\* C8 witness: a query of an unknown id has returned on a graph that has nodes
\* and an edge.
C8_Witness ==
    /\ ret.op \in {"get_callers", "get_callees"}
    /\ ~has_node(graph, ret.args[1])
    /\ Len(graph.edges) > 0

\* two graphs with the same node ids, the same edges and the same attribute
\* dict on every node and every edge
SameGraph(G, H) ==
    /\ NodeIds(G) = NodeIds(H)
    /\ EdgePairs(G) = EdgePairs(H)
    /\ Len(G.nodes) = Len(H.nodes)
    /\ Len(G.edges) = Len(H.edges)
    /\ \A n \in NodeIds(G) : node_data(G, n) = node_data(H, n)
    /\ \A e \in EdgePairs(G) : edge_data(G, e[1], e[2]) = edge_data(H, e[1], e[2])

\* C9: loading the serialization of a graph built by merge_components into a
\* fresh CodeGraph gives the same node ids, edges, counts and attribute dicts.
C9_RoundTrip ==
    ret.op = "reload" => SameGraph(new_graph, graph)

\* C9 witness: a graph with typed nodes and a typed edge has been reloaded.
C9_Witness ==
    /\ ret.op = "reload"
    /\ Len(graph.nodes) >= 2
    /\ \E i \in 1..Len(graph.edges) : HasKey(graph.edges[i].data, "type")
    /\ \E i \in 1..Len(graph.nodes) : HasKey(graph.nodes[i].data, "type")

\* C10: add_node(id, attrs) of an id that is a node already leaves the node
\* count as it was, of a new id raises it by one, and in both cases every
\* attribute given in attrs has the given value afterwards.
C10_AddNodeUpsert ==
    [][ret'.op = "add_node" =>
        LET n == ret'.args[1]
            a == ret'.args[2]
        IN  /\ has_node(graph, n) => Len(graph'.nodes) = Len(graph.nodes)
            /\ ~has_node(graph, n) => Len(graph'.nodes) = Len(graph.nodes) + 1
            /\ Cardinality(NodeIds(graph')) = Len(graph'.nodes)
            /\ has_node(graph', n)
            /\ \A k \in DOMAIN a : node_data(graph', n)[k] = a[k]]_vars

\* C10 witness: add_node was called with a type for an id that was a node
\* already (it is not the last one added).
C10_Witness ==
    /\ ret.op = "add_node"
    /\ Len(graph.nodes) >= 2
    /\ graph.nodes[1].id = ret.args[1]
    /\ HasKey(ret.args[2], "type")

----------------------------------------------------------------------------
(* Properties of an ingestion run.                                         *)

AllFiles == 1..Len(repo)

\* pass 2 has begun for some file, or a call edge exists
PassTwoBegun ==
    \/ pc = "pass2"
    \/ resolved # {}
    \/ all_edges # <<>>
    \/ \E i \in 1..Len(graph.edges) :
          HasKey(graph.edges[i].data, "type") /\ graph.edges[i].data.type = "CALLS"

\* C3: pass 2 does not begin for any file, and no call edge is resolved or
\* merged, before pass 1 has gone through every file of the repository.
C3_Pass1BeforePass2 ==
    PassTwoBegun => collected = AllFiles

\* C3 witness: in a repository of two files, pass 2 is under way and has
\* resolved a call edge.
C3_Witness ==
    /\ Len(repo) >= 2
    /\ pc = "pass2"
    /\ all_edges # <<>>

\* the node dicts and the edge dicts of the result of the run
FinalNodes ==
    IF entry = "build_code_graph" THEN Range(output.nodes) ELSE Range(disk.doc.nodes)

FinalEdges ==
    IF entry = "build_code_graph" THEN Range(output.edges) ELSE Range(disk.doc.links)

\* file f has left something in the result or in the Symbol Table: a node, a
\* key, or an edge with one of its entities as source or target
Contributes(f) ==
    \/ \E n \in FinalNodes : n.id[1] = Paths[f]
    \/ \E i \in 1..Len(symbol_table) : symbol_table[i].key[1] = Paths[f]
    \/ \E e \in FinalEdges : e.source[1] = Paths[f] \/ e.target[1] = Paths[f]

\* C4: when a run is over, a file whose processing raised in either pass has
\* no node in the final node list, no id in the Symbol Table and no entity at
\* either end of an edge of the result.
C4_RaisingFileContributesNothing ==
    pc = "done" => \A f \in raised1 \cup raised2 : ~Contributes(f)

\* C5: an exception raised while a file is processed never aborts the run;
\* the run goes through every file in each of its passes and writes the graph
\* artifact.
C5_RunNeverAborted ==
    /\ pc # "aborted"
    /\ pc = "done" =>
          /\ output.written \/ disk.written
          /\ collected = AllFiles
          /\ entry = "build_code_graph" => resolved = AllFiles

\* C6: when a run is over, a file whose tree has a syntax error has no node
\* and no edge in the result, and every well-formed file that did not raise
\* has all its nodes in it.
C6_ErrorFileSkipped ==
    pc = "done" =>
        \A f \in AllFiles :
            /\ repo[f].has_error =>
                  /\ ~\E n \in FinalNodes : n.id[1] = Paths[f]
                  /\ ~\E e \in FinalEdges : e.source[1] = Paths[f] \/ e.target[1] = Paths[f]
            /\ (~repo[f].has_error /\ f \notin raised1 /\ entry = "build_code_graph") =>
                  Range(parse_file_nodes(Paths[f], repo[f], not_inside)) \subseteq FinalNodes

----------------------------------------------------------------------------
(* A caller of merge_components that holds a batch (two Python lists of    *)
(* dicts) and merges it more than once.  merge_components pops the keys    *)
(* id, source and target out of the dicts it is given, so the lists the    *)
(* caller still holds after a call are not the lists it built.  The caller *)
(* either passes the lists it holds again, or builds equal lists anew (the *)
(* file is parsed again) and passes those.                                 *)

\* nodes, edges = <the output of a parse>
MakeBatch ==
    /\ \E b \in Batches :
          batch' = [made |-> TRUE, nodes |-> b.nodes, edges |-> b.edges,
                    built |-> b, passed |-> "none"]
    /\ merges' = 0
    /\ UNCHANGED gvars
    /\ UNCHANGED rvars
    /\ UNCHANGED centrality_scores
    /\ UNCHANGED jvars

\* graph.merge_components(nodes, edges) with the lists the caller holds
MergeHeld ==
    /\ batch.made
    /\ merges < MaxMerges
    /\ LET r == merge_components(graph, batch.nodes, batch.edges)
       IN  /\ WithinBounds(r.graph)
           /\ graph' = r.graph
           /\ ret' = Ret("merge_components", <<batch.nodes, batch.edges>>, r)
           /\ batch' = [batch EXCEPT !.nodes = r.value[1], !.edges = r.value[2],
                                     !.passed = "held"]
    /\ merges' = merges + 1
    /\ UNCHANGED <<new_graph, disk>>
    /\ UNCHANGED rvars
    /\ UNCHANGED centrality_scores
    /\ UNCHANGED jvars

\* the batch is built again, equal to the first one, and merged
MergeRebuilt ==
    /\ batch.made
    /\ merges >= 1
    /\ merges < MaxMerges
    /\ LET r == merge_components(graph, batch.built.nodes, batch.built.edges)
       IN  /\ WithinBounds(r.graph)
           /\ graph' = r.graph
           /\ ret' = Ret("merge_components", <<batch.built.nodes, batch.built.edges>>, r)
           /\ batch' = [batch EXCEPT !.nodes = r.value[1], !.edges = r.value[2],
                                     !.passed = "rebuilt"]
    /\ merges' = merges + 1
    /\ UNCHANGED <<new_graph, disk>>
    /\ UNCHANGED rvars
    /\ UNCHANGED centrality_scores
    /\ UNCHANGED jvars

NextMerge ==
    \/ MakeBatch
    \/ MergeHeld
    \/ MergeRebuilt

SpecMerge == Init /\ [][NextMerge]_vars

\* the step is the second merge of a batch whose first merge succeeded
SecondMerge == merges = 1 /\ merges' = 2 /\ ret.raised = "None"

\* C11: merging the same (nodes, edges) batch a second time succeeds, and the
\* node count after the second call equals the node count after the first.
C11_SecondMergeUpserts ==
    [][(SecondMerge /\ batch'.passed = "held") =>
           /\ ret'.raised = "None"
           /\ Len(graph'.nodes) = Len(graph.nodes)]_vars

\* the batch as built holds a CALLS edge
HasCallsEdge(b) ==
    \E i \in 1..Len(b.edges) : HasKey(b.edges[i], "type") /\ b.edges[i].type = "CALLS"

\* C12: merge does not deduplicate edges: when a batch that holds a CALLS edge
\* is built again and merged a second time, the graph has more edges after
\* the second merge than after the first.
C12_SecondMergeDuplicatesEdges ==
    [][(SecondMerge /\ batch'.passed = "rebuilt" /\ HasCallsEdge(batch.built)) =>
           /\ ret'.raised = "None"
           /\ Len(graph'.edges) > Len(graph.edges)]_vars

\* C13: merge_components is transactional: when add_edge rejects an edge of
\* the batch, the graph after the call is the graph before the call.
C13_MergeIsTransactional ==
    [][(ret'.op = "merge_components" /\ merges' # merges /\ IsValueError(ret'.raised)) =>
           graph' = graph]_vars

----------------------------------------------------------------------------
(* The parsers applied to one file, as functions: parse_file and then      *)
(* resolve_calls with a fresh Symbol Table, or                             *)
(* parse_file_to_graph_components(file_path).  The file is drawn from the  *)
(* hand-written sources and from every syntax tree of up to MaxTreeLen     *)
(* definitions and calls, in document order, over two names.               *)

Names == {"a", "b"}

RECURSIVE OpenAt(_, _)
\* the definitions that are still open after node k of a tree in document
\* order: k itself if it is a definition, and the ancestors of k
OpenAt(tree, k) ==
    IF k = 0 THEN {}
    ELSE (IF tree[k].type = "call" THEN {} ELSE {k}) \cup OpenAt(tree, tree[k].parent)

RECURSIVE TreesOfLen(_)
\* the syntax trees of n nodes: each node is a class, a function or a call,
\* at top level or inside a definition that is still open
TreesOfLen(n) ==
    IF n = 0 THEN {<<>>}
    ELSE UNION {{Append(t, [type |-> ty, name |-> nm, parent |-> par]) :
                    ty \in {"class_definition", "function_definition", "call"},
                    nm \in Names,
                    par \in {0} \cup OpenAt(t, n - 1)} : t \in TreesOfLen(n - 1)}

Trees == UNION {TreesOfLen(n) : n \in 0..MaxTreeLen}

ParseInputs ==
    Sources \cup {[has_error |-> FALSE, imports |-> i, tree |-> t] :
                     i \in {<<>>, <<"os", "os">>}, t \in Trees}

InitParse ==
    /\ graph = CodeGraph_init
    /\ ret = [op |-> "init", args |-> <<>>, raised |-> "None", value |-> <<>>]
    /\ new_graph = CodeGraph_init
    /\ disk = NoDoc
    /\ \E file \in ParseInputs : repo = <<file>>
    /\ not_inside \in BOOLEAN
    /\ entry \in {"parse_file", "parse_file_to_graph_components"}
    /\ pc = "start"
    /\ idx = 1
    /\ symbol_table = <<>>
    /\ all_nodes = <<>>
    /\ all_edges = <<>>
    /\ output = [written |-> FALSE, nodes |-> <<>>, edges |-> <<>>]
    /\ collected = {}
    /\ resolved = {}
    /\ raised1 = {}
    /\ raised2 = {}
    /\ NoBatch

\* file_nodes = parse_file(file_path, "python", code_bytes, symbol_table, repo_path)
ApplyParseFile ==
    /\ pc = "start"
    /\ entry = "parse_file"
    /\ LET r == parse_file(Paths[1], repo[1], symbol_table, not_inside)
       IN  /\ all_nodes' = r.nodes
           /\ symbol_table' = r.symbol_table
    /\ pc' = "collected"
    /\ collected' = {1}
    /\ UNCHANGED <<repo, not_inside, entry, idx, all_edges, output, resolved, raised1, raised2>>
    /\ UNCHANGED gvars
    /\ UNCHANGED mvars

\* file_edges = resolve_calls(file_path, "python", code_bytes, symbol_table, repo_path)
ApplyResolveCalls ==
    /\ pc = "collected"
    /\ all_edges' = resolve_calls(Paths[1], repo[1], symbol_table)
    /\ symbol_table' = resolve_calls_symbol_table(Paths[1], repo[1], symbol_table)
    /\ pc' = "done"
    /\ resolved' = {1}
    /\ UNCHANGED <<repo, not_inside, entry, idx, all_nodes, output, collected,
                   raised1, raised2>>
    /\ UNCHANGED gvars
    /\ UNCHANGED mvars

\* nodes, edges = parse_file_to_graph_components(file_path)
ApplyParseFileToGraphComponents ==
    /\ pc = "start"
    /\ entry = "parse_file_to_graph_components"
    /\ \E raises \in BOOLEAN :
          LET r == parse_file_to_graph_components(Paths[1], repo[1], raises)
          IN  /\ all_nodes' = r.nodes
              /\ all_edges' = r.edges
              /\ raised1' = IF raises THEN {1} ELSE {}
    /\ pc' = "done"
    /\ collected' = {1}
    /\ UNCHANGED <<repo, not_inside, entry, idx, symbol_table, output, resolved, raised2>>
    /\ UNCHANGED gvars
    /\ UNCHANGED mvars

NextParse ==
    \/ ApplyParseFile
    \/ ApplyResolveCalls
    \/ ApplyParseFileToGraphComponents

SpecParse == InitParse /\ [][NextParse]_vars

\* no id occurs twice in a list of node dicts
UniqueIds(nodes) ==
    \A i, j \in 1..Len(nodes) : nodes[i].id = nodes[j].id => i = j

\* C14: for a file with zero syntax errors, whatever its nesting, the node
\* list that symbol collection emits holds no two nodes with the same id.
C14_BatchIdsUnique ==
    (pc # "start" /\ ~repo[1].has_error) => UniqueIds(all_nodes)

\* the DEFINES edges of the result that point to the node with this id
DefinesInto(id) ==
    {e \in FinalEdges : HasKey(e, "type") /\ e.type = "DEFINES" /\ e.target = id}

\* the id of the owner of an entity: the id without its last part
OwnerId(id) == SubSeq(id, 1, Len(id) - 1)

\* C15: in the graph an ingestion run produced, every node that is not a File
\* has exactly one incoming DEFINES edge, and for a class, function or method
\* that edge comes from its owner.
C15_OneDefinesOwner ==
    pc = "done" =>
        \A n \in FinalNodes :
            n.type # "File" =>
                /\ Cardinality(DefinesInto(n.id)) = 1
                /\ n.type \in {"Class", "Function", "Method", "class", "function", "method"} =>
                      \A e \in DefinesInto(n.id) : e.source = OwnerId(n.id)

\* the run is over, it went through build_code_graph over this one file, and
\* no step of it raised
BuiltFrom(file) ==
    /\ pc = "done"
    /\ entry = "build_code_graph"
    /\ repo = <<file>>
    /\ raised1 \cup raised2 = {}

\* the ids of the nodes of the result
FinalIds == {n.id : n \in FinalNodes}

\* the result holds an edge of this kind from s to t
FinalEdge(s, t, kind) ==
    \E e \in FinalEdges : e.source = s /\ e.target = t /\ HasKey(e, "type") /\ e.type = kind

IngestedFrom(file) ==
    /\ pc = "done"
    /\ repo = <<file>>
    /\ raised1 \cup raised2 = {}

\* C17: scenario B: ingesting the file  class C: def m(self): f()  def f(): pass
\* yields exactly the entity nodes file::C, file::C::m and file::f besides the
\* File node, the DEFINES edges file -> C, C -> C::m and file -> f, and the
\* CALLS edge C::m -> f.
C17_ScenarioB ==
    IngestedFrom(SourceB) =>
        /\ FinalIds \ {<<"p1.py">>} =
              {<<"p1.py", "C">>, <<"p1.py", "C", "m">>, <<"p1.py", "f">>}
        /\ FinalEdge(<<"p1.py">>, <<"p1.py", "C">>, "DEFINES")
        /\ FinalEdge(<<"p1.py", "C">>, <<"p1.py", "C", "m">>, "DEFINES")
        /\ FinalEdge(<<"p1.py">>, <<"p1.py", "f">>, "DEFINES")
        /\ FinalEdge(<<"p1.py", "C", "m">>, <<"p1.py", "f">>, "CALLS")

----------------------------------------------------------------------------
(* src/src/codex/report/ranking.py                                         *)
(* nx.pagerank(G, alpha=0.85) is the power iteration of networkx with its  *)
(* defaults (max_iter=100, tol=1e-06, edge weight 1 when an edge has no    *)
(* weight attribute, personalization and dangling weights uniform).  The   *)
(* floating point scores are modelled in fixed point: a score s is the     *)
(* integer s * RankScale, rounded down after every division.               *)

RankScale == 10000000
AlphaPct == 85        \* alpha = 0.85, in hundredths
MaxIter == 100
TolInv == 1000000     \* tol = 1 / TolInv

Abs(n) == IF n < 0 THEN 0 - n ELSE n

\* the number of edges that leave each node, from the i-th node on
RECURSIVE out_degrees(_, _)
out_degrees(G, i) ==
    IF i > Len(G.nodes) THEN <<>>
    ELSE <<Cardinality({k \in 1..Len(G.edges) : G.edges[k].source = G.nodes[i].id})>>
         \o out_degrees(G, i + 1)

\* the nodes that have an edge to the j-th node, for each j from the j-th on
RECURSIVE in_neighbours(_, _)
in_neighbours(G, j) ==
    IF j > Len(G.nodes) THEN <<>>
    ELSE <<{i \in 1..Len(G.nodes) : has_edge(G, G.nodes[i].id, G.nodes[j].id)}>>
         \o in_neighbours(G, j + 1)

\* fault variant of inflow: no score flows along the edges
inflow_None(x, deg, from) == 0

\* x @ A at one column: every node i with an edge into it gives x[i] / out_degree(i)
RECURSIVE inflow(_, _, _)
inflow(x, deg, from) ==
    IF from = {} THEN 0
    ELSE LET i == CHOOSE k \in from : TRUE
         IN  x[i] \div deg[i] + inflow(x, deg, from \ {i})

\* sum(x[is_dangling]): the score held by the nodes without an outgoing edge
RECURSIVE dangling_sum(_, _, _)
dangling_sum(x, deg, i) ==
    IF i > Len(x) THEN 0
    ELSE (IF deg[i] = 0 THEN x[i] ELSE 0) + dangling_sum(x, deg, i + 1)

\* x = alpha * (x @ A + sum(x[is_dangling]) * dangling_weights) + (1 - alpha) * p,
\* from component j on
RECURSIVE pagerank_step(_, _, _, _, _)
pagerank_step(x, deg, into, d, j) ==
    IF j > Len(x) THEN <<>>
    ELSE <<(AlphaPct * (inflow(x, deg, into[j]) + d \div Len(x))) \div 100
           + ((100 - AlphaPct) * (RankScale \div Len(x))) \div 100>>
         \o pagerank_step(x, deg, into, d, j + 1)

\* err = absolute(x - xlast).sum()
RECURSIVE l1_distance(_, _, _)
l1_distance(x, y, i) ==
    IF i > Len(x) THEN 0 ELSE Abs(x[i] - y[i]) + l1_distance(x, y, i + 1)

\* the loop for _ in range(max_iter) with n iterations left: the scores once
\* err < N * tol, PowerIterationConvergenceFailure when the loop runs out
RECURSIVE power_iteration(_, _, _, _)
power_iteration(xlast, deg, into, n) ==
    IF n = 0 THEN [raised |-> TRUE, scores |-> xlast]
    ELSE LET d == dangling_sum(xlast, deg, 1)
             x == pagerank_step(xlast, deg, into, d, 1)
         IN  IF l1_distance(x, xlast, 1) < Len(x) * (RankScale \div TolInv)
             THEN [raised |-> FALSE, scores |-> x]
             ELSE power_iteration(x, deg, into, n - 1)

\* the start vector: 1 / N for each of the N nodes, from the i-th on
RECURSIVE uniform(_, _)
uniform(N, i) == IF i > N THEN <<>> ELSE <<RankScale \div N>> \o uniform(N, i + 1)

\* nx.pagerank raising for a reason of its own (a missing numeric library, for one)
PagerankRaises == [raised |-> TRUE, scores |-> <<>>]

\* nx.pagerank(G, alpha=0.85): scores[i] is the score of the i-th node
pagerank(G) ==
    power_iteration(uniform(Len(G.nodes), 1), out_degrees(G, 1), in_neighbours(G, 1), MaxIter)

\* data.get("type") in ["Class", "Method", "Function"]
is_ranked_kind(data) ==
    HasKey(data, "type") /\ data.type \in {"Class", "Method", "Function"}

\* the loop over graph.graph.nodes(data=True) from the i-th node on
RECURSIVE ranked_nodes(_, _, _)
ranked_nodes(G, scores, i) ==
    IF i > Len(G.nodes) THEN <<>>
    ELSE (IF is_ranked_kind(G.nodes[i].data)
          THEN <<DictUpdate([id |-> G.nodes[i].id, rank |-> scores[i]], G.nodes[i].data)>>
          ELSE <<>>)
         \o ranked_nodes(G, scores, i + 1)

\* one more element put into a list that is sorted by rank, descending, behind
\* the elements whose rank is not smaller (the sort is stable)
RECURSIVE insert_by_rank(_, _)
insert_by_rank(sorted, e) ==
    IF sorted = <<>> THEN <<e>>
    ELSE IF Head(sorted).rank >= e.rank
    THEN <<Head(sorted)>> \o insert_by_rank(Tail(sorted), e)
    ELSE <<e>> \o sorted

\* fault variant of sort_by_rank: the list is left as it is
sort_by_rank_Unsorted(list, i) == list

\* ranked_nodes.sort(key=lambda x: x["rank"], reverse=True), the first i
\* elements of the list sorted
RECURSIVE sort_by_rank(_, _)
sort_by_rank(list, i) ==
    IF i = 0 THEN <<>>
    ELSE insert_by_rank(sort_by_rank(list, i - 1), list[i])

\* list[:n]
slice_to(list, n) ==
    LET stop == IF n < 0 THEN (IF Len(list) + n < 0 THEN 0 ELSE Len(list) + n)
                ELSE IF n > Len(list) THEN Len(list) ELSE n
    IN  SubSeq(list, 1, stop)

\* the part of rank_nodes_by_centrality behind the try block
rank_from_scores(G, scores, top_n) ==
    LET list == ranked_nodes(G, scores, 1)
    IN  [graph |-> G, raised |-> "None",
         value |-> slice_to(sort_by_rank(list, Len(list)), top_n),
         exit |-> "ranked"]

\* fault variant of rank_nodes_by_centrality: the call of nx.pagerank is not
\* inside a try, so that its exception leaves the function
rank_nodes_by_centrality_NoTry(G, top_n, outcome) ==
    IF Len(G.nodes) = 0
    THEN [graph |-> G, raised |-> "None", value |-> <<>>, exit |-> "no nodes"]
    ELSE IF outcome.raised
    THEN [graph |-> G, raised |-> "Exception", value |-> <<>>, exit |-> "pagerank failed"]
    ELSE rank_from_scores(G, outcome.scores, top_n)

\* rank_nodes_by_centrality(graph, top_n); outcome is the outcome
\* of its call nx.pagerank(graph.graph, alpha=0.85)
rank_nodes_by_centrality(G, top_n, outcome) ==
    IF Len(G.nodes) = 0
    THEN [graph |-> G, raised |-> "None", value |-> <<>>, exit |-> "no nodes"]
    ELSE IF outcome.raised
    THEN [graph |-> G, raised |-> "None", value |-> <<>>, exit |-> "pagerank failed"]
    ELSE rank_from_scores(G, outcome.scores, top_n)

----------------------------------------------------------------------------
(* The ranker applied to a graph: graphs of up to three nodes of every     *)
(* kind with up to MaxRankEdges edges between different nodes, and top_n   *)
(* from -1 to MaxTopN.  One behaviour is one call.                         *)

RankIds == <<<<"f.py", "x">>, <<"f.py", "y">>, <<"f.py", "z">>>>

Kinds == {"File", "Class", "Function", "Method", "Import"}

\* the node lists of n nodes
RankNodes(n) ==
    {[i \in 1..n |-> [id |-> RankIds[i], data |-> [type |-> kind[i]]]] :
        kind \in [1..n -> Kinds]}

RECURSIVE SetToSeq(_)
SetToSeq(S) ==
    IF S = {} THEN <<>>
    ELSE LET x == CHOOSE y \in S : TRUE IN <<x>> \o SetToSeq(S \ {x})

\* the edge lists over n nodes
RankEdges(n) ==
    {SetToSeq({[source |-> RankIds[pr[1]], target |-> RankIds[pr[2]],
                data |-> [type |-> "CALLS"]] : pr \in chosen}) :
        chosen \in {c \in SUBSET {pr \in (1..n) \X (1..n) : pr[1] # pr[2]} :
                        Cardinality(c) <= MaxRankEdges}}

RankGraphs ==
    UNION {{[nodes |-> ns, edges |-> es] : ns \in RankNodes(n), es \in RankEdges(n)} :
              n \in 0..3}

InitRank ==
    /\ graph \in RankGraphs
    /\ ret = [op |-> "init", args |-> <<>>, raised |-> "None", value |-> <<>>]
    /\ new_graph = CodeGraph_init
    /\ disk = NoDoc
    /\ NoRun
    /\ NoBatch

\* rank_nodes_by_centrality(graph, top_n)
Rank ==
    /\ ret.op = "init"
    /\ \E fails \in BOOLEAN :
          centrality_scores' = IF Len(graph.nodes) = 0 THEN centrality_scores
                               ELSE IF fails THEN PagerankRaises
                               ELSE pagerank(graph)
    /\ \E top_n \in -1..MaxTopN :
          LET r == rank_nodes_by_centrality(graph, top_n, centrality_scores')
          IN  /\ ret' = Ret("rank_nodes_by_centrality", <<top_n>>, r)
              /\ pc' = r.exit
    /\ UNCHANGED <<graph, new_graph, disk>>
    /\ UNCHANGED <<repo, not_inside, entry, idx, symbol_table, all_nodes, all_edges, output,
                   collected, resolved, raised1, raised2>>
    /\ UNCHANGED <<batch, merges>>
    /\ UNCHANGED jvars

NextRank == Rank

SpecRank == InitRank /\ [][NextRank]_vars

\* when nx.pagerank is left by an exception, it is one of its own: the power
\* iteration converges for every graph of RankGraphs
PagerankConverges == pc = "pagerank failed" => centrality_scores = PagerankRaises

\* the positions of the Class, Function and Method nodes of the graph
RankedKind == {i \in 1..Len(graph.nodes) : is_ranked_kind(graph.nodes[i].data)}

\* the positions in the graph of the nodes the ranker returned
Returned == {NodeIndex(graph, ret.value[j].id) : j \in 1..Len(ret.value)}

Min(a, b) == IF a < b THEN a ELSE b

\* C18: for every graph and every top_n >= 0 the ranker returns exactly the
\* min(top_n, k) highest-scored of the k Class, Function and Method nodes, in
\* non-increasing order of score, each with its own score, and never a File or
\* Import node.
C18_TopNRanked ==
    (pc \in {"ranked", "no nodes"} /\ ret.args[1] >= 0) =>
        /\ Len(ret.value) = Min(ret.args[1], Cardinality(RankedKind))
        /\ Cardinality(Returned) = Len(ret.value)
        /\ Returned \subseteq RankedKind
        /\ \A j \in 1..Len(ret.value) :
              /\ ret.value[j].rank =
                    centrality_scores.scores[NodeIndex(graph, ret.value[j].id)]
              /\ ret.value[j].type \in {"Class", "Function", "Method"}
              /\ j < Len(ret.value) => ret.value[j].rank >= ret.value[j + 1].rank
              /\ \A i \in RankedKind \ Returned :
                    ret.value[j].rank >= centrality_scores.scores[i]

\* C18 witness: the ranker returned one node although the graph holds a
\* second node of a ranked kind with a lower score, earlier in the node order,
\* and a File or Import node whose score is higher than the returned one.
C18_Witness ==
    /\ pc = "ranked"
    /\ ret.args = <<1>>
    /\ Len(ret.value) = 1
    /\ \E i \in RankedKind :
          /\ i < NodeIndex(graph, ret.value[1].id)
          /\ centrality_scores.scores[i] < ret.value[1].rank
    /\ \E i \in (1..Len(graph.nodes)) \ RankedKind :
          centrality_scores.scores[i] > ret.value[1].rank

\* C19: the ranker never raises; for a graph with zero nodes, and whenever
\* the PageRank computation fails or does not converge, it returns an empty
\* list.
C19_NeverRaises ==
    ret.op = "rank_nodes_by_centrality" =>
        /\ ret.raised = "None"
        /\ (Len(graph.nodes) = 0 \/ centrality_scores.raised) => ret.value = <<>>

\* C19 witness: nx.pagerank failed on a graph that holds nodes of a ranked
\* kind, with top_n > 0, and the ranker has returned.
C19_Witness ==
    /\ ret.op = "rank_nodes_by_centrality"
    /\ pc = "pagerank failed"
    /\ ret.args[1] > 0
    /\ RankedKind # {}

\* three nodes of ranked kinds, and exactly the edges from the two others to
\* the c-th
Star(c) ==
    /\ Len(graph.nodes) = 3
    /\ RankedKind = 1..3
    /\ EdgePairs(graph) = {<<RankIds[o], RankIds[c]>> : o \in (1..3) \ {c}}

\* C20: in a graph of three Class/Function/Method nodes where X receives an
\* edge from each of the two others and those receive none, the ranker with
\* top_n = 1 returns the single entry X, whose score is strictly the highest.
C20_StarCentreFirst ==
    \A c \in 1..3 :
        (pc = "ranked" /\ ret.args = <<1>> /\ Star(c)) =>
            /\ Len(ret.value) = 1
            /\ ret.value[1].id = RankIds[c]
            /\ \A o \in (1..3) \ {c} :
                  centrality_scores.scores[c] > centrality_scores.scores[o]

\* C20 witness: the ranker has returned for such a graph whose X is the last
\* node in node order.
C20_Witness ==
    /\ pc = "ranked"
    /\ ret.args = <<1>>
    /\ Star(3)
    /\ Len(ret.value) = 1

----------------------------------------------------------------------------
(* build_code_graph with the files taken in any order.  files_to_process   *)
(* is filled by os.walk (ast_parser.py:160-166), which lists a directory   *)
(* in the order the file system gives, so that one and the same repository *)
(* may be gone through in different orders; a pool of workers that takes   *)
(* the files of a pass one at a time, each batch appended atomically,      *)
(* gives the same behaviours.  repo[i] is the file with path Paths[i].     *)

InitOrder == InitRun /\ entry = "build_code_graph"

\* one iteration of the pass 1 loop, for any file not yet gone through
Pass1Any ==
    /\ pc = "pass1"
    /\ \E f \in (1..Len(repo)) \ collected :
          /\ \/ LET r == parse_file(Paths[f], repo[f], symbol_table, not_inside)
                IN  /\ symbol_table' = r.symbol_table
                    /\ all_nodes' = all_nodes \o r.nodes
                    /\ raised1' = raised1
             \/ \E k \in 0..Len(parse_file_nodes(Paths[f], repo[f], not_inside)) :
                   LET r == parse_file_raising(Paths[f], repo[f], symbol_table, not_inside, k)
                   IN  /\ symbol_table' = r.symbol_table
                       /\ all_nodes' = all_nodes
                       /\ raised1' = raised1 \cup {f}
          /\ collected' = collected \cup {f}
    /\ idx' = idx + 1
    /\ UNCHANGED <<repo, not_inside, entry, pc, all_edges, output, resolved, raised2>>
    /\ UNCHANGED gvars
    /\ UNCHANGED mvars

\* one iteration of the pass 2 loop, for any file not yet gone through
Pass2Any ==
    /\ pc = "pass2"
    /\ \E f \in (1..Len(repo)) \ resolved :
          /\ \/ /\ all_edges' = all_edges \o resolve_calls(Paths[f], repo[f], symbol_table)
                /\ symbol_table' = resolve_calls_symbol_table(Paths[f], repo[f], symbol_table)
                /\ raised2' = raised2
             \/ /\ all_edges' = all_edges
                /\ symbol_table' = symbol_table
                /\ raised2' = raised2 \cup {f}
          /\ resolved' = resolved \cup {f}
    /\ idx' = idx + 1
    /\ UNCHANGED <<repo, not_inside, entry, pc, all_nodes, output, collected, raised1>>
    /\ UNCHANGED gvars
    /\ UNCHANGED mvars

NextOrder ==
    \/ Pass1Any
    \/ Pass1Done
    \/ Pass2Any
    \/ Pass2Done

SpecOrder == InitOrder /\ [][NextOrder]_vars

RECURSIVE pass1_in_order(_, _, _, _)
\* the pass 1 loop from the i-th file on, in the order of the list, when no
\* file raises: [symbol_table, nodes] at its end
pass1_in_order(files, i, table, honoured) ==
    IF i > Len(files) THEN [symbol_table |-> table, nodes |-> <<>>]
    ELSE LET r == parse_file(Paths[i], files[i], table, honoured)
             rest == pass1_in_order(files, i + 1, r.symbol_table, honoured)
         IN  [symbol_table |-> rest.symbol_table, nodes |-> r.nodes \o rest.nodes]

RECURSIVE pass2_in_order(_, _, _)
\* the pass 2 loop from the i-th file on, in the order of the list, when no
\* file raises: the edges it appends
pass2_in_order(files, i, table) ==
    IF i > Len(files) THEN <<>>
    ELSE resolve_calls(Paths[i], files[i], table) \o pass2_in_order(files, i + 1, table)

\* the CALLS edges of the result
FinalCalls == {e \in FinalEdges : HasKey(e, "type") /\ e.type = "CALLS"}

\* C21: per-file work within a pass has no cross-file dependency: whatever
\* the order in which the files are gone through within pass 1 and within
\* pass 2, the final node set and the final set of CALLS edges are the ones
\* of the run that takes the files in the order of their paths.
C21_OrderIndependent ==
    (pc = "done" /\ raised1 \cup raised2 = {}) =>
        LET p1 == pass1_in_order(repo, 1, <<>>, not_inside)
        IN  /\ FinalNodes = Range(p1.nodes)
            /\ FinalCalls = Range(pass2_in_order(repo, 1, p1.symbol_table))

----------------------------------------------------------------------------
(* The caller and the callee of a call site.                               *)

RECURSIVE InnermostDef(_, _)
\* the nearest function_definition at or above node k, 0 if there is none
InnermostDef(tree, k) ==
    IF k = 0 THEN 0
    ELSE IF tree[k].type = "function_definition" THEN k
    ELSE InnermostDef(tree, tree[k].parent)

\* the id of definition d rebuilt as path::[Class::]name
RebuiltId(path, tree, d) ==
    IF ClassAncestor(tree, d) # 0
    THEN <<path, tree[ClassAncestor(tree, d)].name, tree[d].name>>
    ELSE <<path, tree[d].name>>

RECURSIVE InnermostEdges(_, _, _, _, _)
\* the edges of the calls numbered i.. when the caller of a call is its
\* innermost enclosing definition and a call whose caller id is not a key of
\* the table is skipped
InnermostEdges(path, tree, table, sites, i) ==
    IF i > Len(sites) THEN <<>>
    ELSE LET d == InnermostDef(tree, sites[i])
             target_id == find_target(table, tree[sites[i]].name)
         IN  (IF d # 0 /\ st_has(table, RebuiltId(path, tree, d)) /\ target_id # <<>>
              THEN <<[source |-> RebuiltId(path, tree, d), target |-> target_id,
                      type |-> "CALLS"]>>
              ELSE <<>>)
             \o InnermostEdges(path, tree, table, sites, i + 1)

\* the call sites of a tree, in document order
CallSites(tree) == Captures(tree, [k \in 1..Len(tree) |-> tree[k].type = "call"])

\* a pass 2 iteration that did not raise is taken
ResolvesFile ==
    /\ entry = "build_code_graph"
    /\ pc = "pass2"
    /\ resolved' # resolved
    /\ raised2' = raised2

LastPart(key) == key[Len(key)]

\* the positions of the keys of the table whose last part is name
Matches(table, name) == {i \in 1..Len(table) : LastPart(table[i].key) = name}

\* the first key of the table whose last part is name, <<>> if there is none
FirstMatch(table, name) ==
    IF Matches(table, name) = {} THEN <<>>
    ELSE table[CHOOSE i \in Matches(table, name) :
                   \A j \in Matches(table, name) : i <= j].key

RECURSIVE FirstMatchEdges(_, _, _, _, _)
\* the edges of the calls numbered i.. when the callee of a call is the first
\* key whose last part is the called name
FirstMatchEdges(path, tree, table, sites, i) ==
    IF i > Len(sites) THEN <<>>
    ELSE LET caller_id == find_caller(path, tree, table, sites[i])
             target_id == FirstMatch(table, tree[sites[i]].name)
         IN  (IF caller_id # <<>> /\ target_id # <<>>
              THEN <<[source |-> caller_id, target |-> target_id, type |-> "CALLS"]>>
              ELSE <<>>)
             \o FirstMatchEdges(path, tree, table, sites, i + 1)

\* C24: for each call site with captured name n the callee is the first key
\* of the Symbol Table, in insertion order, whose part after the last :: is
\* n, whatever the file or class of the call site; if no key matches, the
\* callee is unresolved and no edge is emitted.
C24_CalleeIsFirstMatch ==
    [][ResolvesFile =>
        all_edges' = all_edges \o FirstMatchEdges(Paths[idx], repo[idx].tree, symbol_table,
                                                  CallSites(repo[idx].tree), 1)]_vars

\* C24 witness: the result holds an edge from a definition of one file to a
\* definition of another file, although a later key of the Symbol Table has
\* the same last part.
C24_Witness ==
    /\ entry = "build_code_graph"
    /\ pc = "done"
    /\ \E i \in 1..Len(all_edges) :
          /\ all_edges[i].source[1] # all_edges[i].target[1]
          /\ Cardinality(Matches(symbol_table, LastPart(all_edges[i].target))) >= 2

\* the caller and the callee of call site k of the file pass 2 is at
SiteCaller(k) == find_caller(Paths[idx], repo[idx].tree, symbol_table, k)

SiteCallee(k) == find_target(symbol_table, repo[idx].tree[k].name)

\* the call sites of the file pass 2 is at whose caller and callee resolve
BothResolve ==
    {k \in Range(CallSites(repo[idx].tree)) : SiteCaller(k) # <<>> /\ SiteCallee(k) # <<>>}

\* C25: pass 2 emits exactly one CALLS edge for a call site when both its
\* caller and its callee resolve and nothing otherwise, a call at module level
\* included: the edges a file adds are as many as its call sites that
\* resolve, one per site, and the edges added before stay as they are.
C25_OneEdgePerResolvedSite ==
    [][ResolvesFile =>
        LET added == SubSeq(all_edges', Len(all_edges) + 1, Len(all_edges'))
        IN  /\ Len(all_edges') >= Len(all_edges)
            /\ SubSeq(all_edges', 1, Len(all_edges)) = all_edges
            /\ Len(added) = Cardinality(BothResolve)
            /\ \A k \in BothResolve :
                  Cardinality({i \in 1..Len(added) :
                      added[i] = [source |-> SiteCaller(k), target |-> SiteCallee(k),
                                  type |-> "CALLS"]})
                  = Cardinality({j \in BothResolve : /\ SiteCaller(j) = SiteCaller(k)
                                                     /\ SiteCallee(j) = SiteCallee(k)})]_vars

\* C25 witness: a run in which nothing raised has ended with an edge in its
\* result, and one of its files has a call at module level to a name that is
\* the last part of a key of the Symbol Table.
C25_Witness ==
    /\ entry = "build_code_graph"
    /\ pc = "done"
    /\ raised1 \cup raised2 = {}
    /\ all_edges # <<>>
    /\ \E f \in 1..Len(repo) : \E k \in Range(CallSites(repo[f].tree)) :
          /\ InnermostDef(repo[f].tree, k) = 0
          /\ Matches(symbol_table, repo[f].tree[k].name) # {}
          /\ \A i \in 1..Len(all_edges) : all_edges[i].source[1] # Paths[f]

\* C26: the Symbol Table is read-only during pass 2: resolving the calls of
\* any file, in any order, adds, removes or changes no entry, so that the
\* table at the end of pass 2 is the table at the end of pass 1.
C26_TableReadOnlyInPass2 ==
    [][pc = "pass2" => symbol_table' = symbol_table]_vars

\* C26 witness: pass 2 has resolved the calls of the second file before
\* those of the first one, both with edges, and the run has ended.
C26_Witness ==
    /\ pc = "done"
    /\ symbol_table # <<>>
    /\ \E i, j \in 1..Len(all_edges) :
          /\ i < j
          /\ all_edges[i].source[1] = Paths[2]
          /\ all_edges[j].source[1] = Paths[1]

----------------------------------------------------------------------------
(* A caller that parses the files of a repository with                     *)
(* parse_file_to_graph_components(file_path), one argument as the function *)
(* declares, and merges each batch into one CodeGraph, the files taken in  *)
(* any order (the loop body of parse, the call corrected).  The repository *)
(* is a list of hand-written files or one generated file.                  *)

InitIngest ==
    /\ graph = CodeGraph_init
    /\ ret = [op |-> "init", args |-> <<>>, raised |-> "None", value |-> <<>>]
    /\ new_graph = CodeGraph_init
    /\ disk = NoDoc
    /\ repo \in Repos \cup {<<file>> : file \in ParseInputs}
    /\ not_inside = FALSE
    /\ entry = "parse_file_to_graph_components"
    /\ pc = "ingest"
    /\ idx = 1
    /\ symbol_table = <<>>
    /\ all_nodes = <<>>
    /\ all_edges = <<>>
    /\ output = [written |-> FALSE, nodes |-> <<>>, edges |-> <<>>]
    /\ collected = {}
    /\ resolved = {}
    /\ raised1 = {}
    /\ raised2 = {}
    /\ NoBatch

\* nodes, edges = parse_file_to_graph_components(file_path)
\* main_graph.merge_components(nodes, edges)
IngestFile ==
    /\ pc = "ingest"
    /\ \E f \in (1..Len(repo)) \ collected : \E raises \in BOOLEAN :
          LET c == parse_file_to_graph_components(Paths[f], repo[f], raises)
              r == merge_components(graph, c.nodes, c.edges)
          IN  /\ all_nodes' = c.nodes
              /\ all_edges' = c.edges
              /\ graph' = r.graph
              /\ ret' = Ret("merge_components", <<c.nodes, c.edges>>, r)
              /\ raised1' = IF raises THEN raised1 \cup {f} ELSE raised1
              /\ collected' = collected \cup {f}
    /\ idx' = idx + 1
    /\ UNCHANGED <<repo, not_inside, entry, pc, symbol_table, output, resolved, raised2>>
    /\ UNCHANGED <<new_graph, disk>>
    /\ UNCHANGED mvars

NextIngest == IngestFile

SpecIngest == InitIngest /\ [][NextIngest]_vars

\* the files whose batch was merged and that gave nodes: no syntax error and
\* nothing raised inside the parser
Parsed == {f \in collected \ raised1 : ~repo[f].has_error}

\* the ids of the external modules file f imports
ImportIds(f) == {<<"import", repo[f].imports[i]>> : i \in 1..Len(repo[f].imports)}

\* the positions of the nodes with a given id in a list of node dicts
Holding(nodes, id) == {k \in 1..Len(nodes) : nodes[k].id = id}

\* C27: Import nodes are deduplicated within one file's batch and may repeat
\* across files: a batch holds at most one node per import id, merging the
\* batches of several files that import the same external id raises no
\* error, and the graph then holds exactly one Import node for that id, with
\* an IMPORTS edge from each importing file.
C27_ImportsDeduplicated ==
    /\ \A k \in 1..Len(all_nodes) :
          all_nodes[k].type = "Import" =>
              Cardinality(Holding(all_nodes, all_nodes[k].id)) = 1
    /\ ret.raised = "None"
    /\ \A f \in Parsed : \A id \in ImportIds(f) :
          /\ Cardinality(Holding(graph.nodes, id)) = 1
          /\ node_data(graph, id).type = "Import"
          /\ has_edge(graph, <<Paths[f]>>, id)
          /\ edge_data(graph, <<Paths[f]>>, id).type = "IMPORTS"

\* C27 witness: two files that import the same module, one of them twice,
\* were merged.
C27_Witness ==
    /\ \E f, g \in Parsed :
          /\ f # g
          /\ ImportIds(f) \cap ImportIds(g) # {}
          /\ Len(repo[f].imports) > Cardinality(ImportIds(f))

----------------------------------------------------------------------------
\* C28: a failed add_edge leaves the graph unchanged: when add_edge raises
\* because the source or the target is missing, the nodes, the edges and all
\* attributes are the same as before the call; the missing endpoint is not
\* created and no edge is added.
C28_FailedAddEdgeChangesNothing ==
    [][(ret'.op = "add_edge" /\ IsValueError(ret'.raised)) =>
        /\ graph' = graph
        /\ ~has_edge(graph', ret'.args[1], ret'.args[2])
        /\ ~(has_node(graph', ret'.args[1]) /\ has_node(graph', ret'.args[2]))]_vars

\* C28 witness: add_edge has just failed for a source that is missing, on a
\* graph that holds nodes and an edge.
C28_Witness ==
    /\ ret.op = "add_edge"
    /\ ret.raised = "ValueError: Source node not found"
    /\ ~has_node(graph, ret.args[1])
    /\ Len(graph.nodes) >= 2
    /\ Len(graph.edges) >= 1

\* C29: every batch returned by parse_file_to_graph_components is
\* self-contained: the source and the target of each of its DEFINES and
\* IMPORTS edges are ids of nodes of the same batch, so that merging the
\* batch into the graph, for any order of the files, never raises a
\* missing-endpoint error.
C29_BatchSelfContained ==
    /\ \A i \in 1..Len(all_edges) :
          /\ all_edges[i].type \in {"DEFINES", "IMPORTS"}
          /\ Holding(all_nodes, all_edges[i].source) # {}
          /\ Holding(all_nodes, all_edges[i].target) # {}
    /\ ~IsValueError(ret.raised)

\* C29 witness: the batch of a second file, with DEFINES and IMPORTS edges,
\* was merged into the graph that held the first file's batch.
C29_Witness ==
    /\ ret.op = "merge_components"
    /\ Cardinality(collected) = 2
    /\ Len(graph.nodes) > Len(all_nodes)
    /\ \E i, j \in 1..Len(all_edges) :
          all_edges[i].type = "DEFINES" /\ all_edges[j].type = "IMPORTS"

----------------------------------------------------------------------------
(* src/src/codex/webapp/main.py and worker.py: the analyze and status      *)
(* endpoints and the background worker.  FastAPI runs a background task    *)
(* after the response of the request that added it was sent;               *)
(* run_full_pipeline is a plain function and runs in a worker thread,      *)
(* while get_status runs on the event loop, so that a status request is    *)
(* served between any two statements of the worker.                        *)

\* an entry of JOB_STATUSES
StatusEntry(status, step) == [status |-> status, step |-> step]

\* what run_ingestion(repo_path=..., output_file=...) raises: typer.Exit when
\* the clone holds no Python file, else what the parser call of the first
\* file raises ("None" when the run gets past it)
run_ingestion(has_files) ==
    IF ~has_files THEN "Exit"
    ELSE call_parser(Paths[1], SourceA, FALSE).raised

\* POST /analyze
start_analysis ==
    /\ UNCHANGED <<gvars, rvars, batch, merges, centrality_scores>>
    /\ \E git_url \in {"", "https://github.com/o/r"} :
        IF git_url = ""
        THEN /\ response' = [request |-> "analyze", job_id |-> 0, code |-> 400,
                             body |-> [detail |-> "git_url is required."]]
             /\ UNCHANGED <<JOB_STATUSES, background_tasks>>
        ELSE \E job_id \in JobIds :
                /\ background_tasks[job_id] = "none"
                /\ background_tasks' = [background_tasks EXCEPT ![job_id] = "added"]
                /\ response' = [request |-> "analyze", job_id |-> job_id, code |-> 200,
                                body |-> [job_id |-> job_id]]
                /\ UNCHANGED JOB_STATUSES

\* GET /status/{job_id}, for a job_id that an analyze request has returned
get_status ==
    /\ UNCHANGED <<gvars, rvars, batch, merges, centrality_scores>>
    /\ \E job_id \in JobIds :
        /\ background_tasks[job_id] # "none"
        /\ response' = IF HasKey(JOB_STATUSES, job_id)
                       THEN [request |-> "status", job_id |-> job_id, code |-> 200,
                             body |-> JOB_STATUSES[job_id]]
                       ELSE [request |-> "status", job_id |-> job_id, code |-> 404,
                             body |-> [detail |-> "Job not found."]]
        /\ UNCHANGED <<JOB_STATUSES, background_tasks>>

\* run_full_pipeline, its first statement:
\* JOB_STATUSES[job_id] = {"status": "running", "step": "Cloning repository..."}
pipeline_begin ==
    /\ UNCHANGED <<gvars, rvars, batch, merges, centrality_scores>>
    /\ \E job_id \in JobIds :
        /\ background_tasks[job_id] = "added"
        /\ JOB_STATUSES' = (job_id :> StatusEntry("running", "Cloning repository..."))
                           @@ JOB_STATUSES
        /\ background_tasks' = [background_tasks EXCEPT ![job_id] = "cloning"]
        /\ UNCHANGED response

\* run_full_pipeline from the rmtree to the clone; the except clause when one
\* of them raises
pipeline_clone ==
    /\ UNCHANGED <<gvars, rvars, batch, merges, centrality_scores>>
    /\ \E job_id \in JobIds : \E cloned \in BOOLEAN :
        /\ background_tasks[job_id] = "cloning"
        /\ IF cloned
           THEN /\ JOB_STATUSES' = [JOB_STATUSES EXCEPT ![job_id].step =
                                       "Tier 1: Building structural code graph..."]
                /\ background_tasks' = [background_tasks EXCEPT ![job_id] = "ingesting"]
           ELSE /\ JOB_STATUSES' = [JOB_STATUSES EXCEPT ![job_id] =
                                       StatusEntry("failed", "An error occurred")]
                /\ background_tasks' = [background_tasks EXCEPT ![job_id] = "returned"]
        /\ UNCHANGED response

\* run_full_pipeline from run_ingestion to its end
pipeline_analyse ==
    /\ UNCHANGED <<gvars, rvars, batch, merges, centrality_scores>>
    /\ \E job_id \in JobIds : \E has_files \in BOOLEAN : \E reported \in BOOLEAN :
        /\ background_tasks[job_id] = "ingesting"
        /\ JOB_STATUSES' = [JOB_STATUSES EXCEPT ![job_id] =
              IF run_ingestion(has_files) = "None" /\ reported
              THEN StatusEntry("complete", "Analysis complete!")
              ELSE StatusEntry("failed", "An error occurred")]
        /\ background_tasks' = [background_tasks EXCEPT ![job_id] = "returned"]
        /\ UNCHANGED response

NextJob ==
    \/ start_analysis
    \/ get_status
    \/ pipeline_begin
    \/ pipeline_clone
    \/ pipeline_analyse

SpecJob == Init /\ [][NextJob]_vars

\* the status of the entry of a job, "absent" when the dict has none
StatusOf(statuses, job_id) ==
    IF HasKey(statuses, job_id) THEN statuses[job_id].status ELSE "absent"

\* C30: once the analyze request has returned a job_id, a status request for
\* that job_id finds a status entry at every interleaving of the poller with
\* the background worker (never "Job not found"), and the entry goes from
\* running to exactly one of complete or failed and never changes afterwards.
C30_StatusAlwaysFound ==
    [][/\ response'.request = "status" => response'.code = 200
       /\ \A job_id \in JobIds :
             LET before == StatusOf(JOB_STATUSES, job_id)
                 after == StatusOf(JOB_STATUSES', job_id)
             IN  /\ before \in {"complete", "failed"} =>
                        JOB_STATUSES'[job_id] = JOB_STATUSES[job_id]
                 /\ before # after =>
                        \/ before = "absent" /\ after = "running"
                        \/ before = "running" /\ after \in {"complete", "failed"}]_vars

====
